---- MODULE Spec2Model ----
(***************************************************************************)
(* A model of pylinac_bulkcbct: the analysis orchestrator                  *)
(* (run_catphan_analysis), the serialized form of a BatchAnalysis          *)
(* (to_dict / from_dict) and the XML result exporter                       *)
(* (export_pass_results_to_xml) of src/src/pylinac_bulkcbct/analysis.py.   *)
(*                                                                         *)
(* Text is a sequence of one-character strings.  Study paths range over    *)
(* characters that an XML document can hold; the characters "&" and "<"    *)
(* are in the alphabet so that the escaping done by the XML writer and     *)
(* undone by the XML parser is exercised.                                  *)
(***************************************************************************)
EXTENDS Integers, Sequences, FiniteSets, TLC

(***************************************************************************)
(* Bounds of the model.                                                    *)
(***************************************************************************)
\* the longest batch handed to the exporter
MaxBatch == 2
\* the number of export calls one process makes
MaxCalls == 2
\* the longest inventory handed to the orchestrator
MaxStudies == 3
\* the largest microsecond value of a timestamp
MaxMicro == 2
\* the largest number of files in one directory of the scanned tree
MaxFiles == 2
\* the largest number of pieces a summary text is made of
MaxPieces == 4
\* the largest number of nodes of a metrics tree
MaxNodes == 3
\* the most characters a study id or analyzer name given to _report_filename has
MaxChars == 2

(***************************************************************************)
(* Text helpers.                                                           *)
(***************************************************************************)
\* Python's None, as a text-like value that is no text of the model
None == <<"None">>

IsPrefix(s, t) == Len(s) <= Len(t) /\ SubSeq(t, 1, Len(s)) = s

\* the character class [A-Za-z0-9_.-] of _report_filename
SafeChars ==
    {"a", "b", "c", "d", "e", "f", "g", "h", "i", "j", "k", "l", "m",
     "n", "o", "p", "q", "r", "s", "t", "u", "v", "w", "x", "y", "z",
     "A", "B", "C", "D", "E", "F", "G", "H", "I", "J", "K", "L", "M",
     "N", "O", "P", "Q", "R", "S", "T", "U", "V", "W", "X", "Y", "Z",
     "0", "1", "2", "3", "4", "5", "6", "7", "8", "9", "_", ".", "-"}

\* str.replace("\\", "_").replace("/", "_")
ReplaceSeparators(s) ==
    [i \in 1..Len(s) |-> IF s[i] \in {"\\", "/"} THEN "_" ELSE s[i]]

\* re.sub(r"[^A-Za-z0-9_.-]+", "_", s): every maximal run of characters
\* outside the class becomes one underscore
RECURSIVE SubUnsafe(_, _)
SubUnsafe(s, inRun) ==
    IF s = <<>> THEN <<>>
    ELSE IF Head(s) \in SafeChars THEN <<Head(s)>> \o SubUnsafe(Tail(s), FALSE)
    ELSE IF inRun THEN SubUnsafe(Tail(s), TRUE)
    ELSE <<"_">> \o SubUnsafe(Tail(s), TRUE)

\* str.strip("_")
RECURSIVE StripLeft(_)
StripLeft(s) ==
    IF s # <<>> /\ Head(s) = "_" THEN StripLeft(Tail(s)) ELSE s

RECURSIVE StripRight(_)
StripRight(s) ==
    IF s # <<>> /\ s[Len(s)] = "_" THEN StripRight(SubSeq(s, 1, Len(s) - 1)) ELSE s

StripUnderscores(s) == StripRight(StripLeft(s))

\* _report_filename as a helper without the "study" and "catphan"
\* fallbacks would do it
_report_filename_without_fallback(study_id, phantom) ==
    LET safe_study == StripUnderscores(SubUnsafe(ReplaceSeparators(study_id), FALSE))
        safe_phantom == StripUnderscores(SubUnsafe(phantom, FALSE))
    IN  safe_study \o <<"_">> \o safe_phantom \o <<".", "p", "d", "f">>

\* lines 293-304
_report_filename(study_id, phantom) ==
    LET safe_study0 == StripUnderscores(SubUnsafe(ReplaceSeparators(study_id), FALSE))
        safe_phantom0 == StripUnderscores(SubUnsafe(phantom, FALSE))
        safe_study == IF safe_study0 = <<>> THEN <<"s", "t", "u", "d", "y">> ELSE safe_study0
        safe_phantom ==
            IF safe_phantom0 = <<>> THEN <<"c", "a", "t", "p", "h", "a", "n">>
            ELSE safe_phantom0
    IN  safe_study \o <<"_">> \o safe_phantom \o <<".", "p", "d", "f">>

\* str.lower on the letters of the model
UpperCase ==
    <<"A", "B", "C", "D", "E", "F", "G", "H", "I", "J", "K", "L", "M",
      "N", "O", "P", "Q", "R", "S", "T", "U", "V", "W", "X", "Y", "Z">>
LowerCase ==
    <<"a", "b", "c", "d", "e", "f", "g", "h", "i", "j", "k", "l", "m",
      "n", "o", "p", "q", "r", "s", "t", "u", "v", "w", "x", "y", "z">>

lower_char(c) ==
    IF \E i \in 1..Len(UpperCase) : UpperCase[i] = c
    THEN LowerCase[CHOOSE i \in 1..Len(UpperCase) : UpperCase[i] = c]
    ELSE c

lower(s) == [i \in 1..Len(s) |-> lower_char(s[i])]

\* Path(name).suffix: the text from the last dot on, when that dot is
\* neither the first nor the last character of the name
suffix(name) ==
    LET dots == {i \in 1..Len(name) : name[i] = "."}
        last == CHOOSE i \in dots : \A j \in dots : j <= i
    IN  IF dots = {} THEN <<>>
        ELSE IF last = 1 \/ last = Len(name) THEN <<>>
        ELSE SubSeq(name, last, Len(name))

\* str.strip(chars)
RECURSIVE lstrip_chars(_, _)
lstrip_chars(s, chars) ==
    IF s # <<>> /\ Head(s) \in chars THEN lstrip_chars(Tail(s), chars) ELSE s

RECURSIVE rstrip_chars(_, _)
rstrip_chars(s, chars) ==
    IF s # <<>> /\ s[Len(s)] \in chars
    THEN rstrip_chars(SubSeq(s, 1, Len(s) - 1), chars)
    ELSE s

strip_chars(s, chars) == rstrip_chars(lstrip_chars(s, chars), chars)

\* str.strip(): the whitespace of the model
Whitespace == {" ", "\t", "\n", "\r"}
strip(s) == strip_chars(s, Whitespace)

\* str.startswith, str.endswith with a one-character argument
startswith(s, c) == s # <<>> /\ s[1] = c
endswith(s, c) == s # <<>> /\ s[Len(s)] = c

\* str.replace("\r\n", "\n")
RECURSIVE ReplaceCRLF(_)
ReplaceCRLF(s) ==
    IF s = <<>> THEN <<>>
    ELSE IF Len(s) >= 2 /\ s[1] = "\r" /\ s[2] = "\n"
    THEN <<"\n">> \o ReplaceCRLF(SubSeq(s, 3, Len(s)))
    ELSE <<Head(s)>> \o ReplaceCRLF(Tail(s))

\* str.replace(old, new) for one-character old
replace(s, old, new) == [i \in 1..Len(s) |-> IF s[i] = old THEN new ELSE s[i]]

\* str.replace(old, "") for one-character old
remove(s, old) == LET Keep(c) == c # old IN SelectSeq(s, Keep)

\* str.split(sep) for one-character sep: the pieces between the separators
RECURSIVE split(_, _, _)
split(s, sep, piece) ==
    IF s = <<>> THEN <<piece>>
    ELSE IF Head(s) = sep THEN <<piece>> \o split(Tail(s), sep, <<>>)
    ELSE split(Tail(s), sep, Append(piece, Head(s)))

\* the positions of character c in s
Positions(s, c) == {i \in 1..Len(s) : s[i] = c}
Smallest(S) == CHOOSE i \in S : \A j \in S : i <= j
Largest(S) == CHOOSE i \in S : \A j \in S : j <= i

(***************************************************************************)
(* The XML writer and parser (ElementTree.write, ElementTree.parse) on     *)
(* the text of attributes and elements.  A written text is a sequence of   *)
(* tokens: a character, or an entity reference.                            *)
(***************************************************************************)
EscapeChar(c) ==
    IF c = "&" THEN "&amp;" ELSE IF c = "<" THEN "&lt;" ELSE c

UnescapeChar(t) ==
    IF t = "&amp;" THEN "&" ELSE IF t = "&lt;" THEN "<" ELSE t

\* XmlEscape as a writer that writes texts as they are would do it
XmlEscapeRaw(s) == s

XmlEscape(s) == IF s = None THEN None ELSE [i \in 1..Len(s) |-> EscapeChar(s[i])]

XmlUnescape(t) == IF t = None THEN None ELSE [i \in 1..Len(t) |-> UnescapeChar(t[i])]

\* a raw "&" or "<" inside a text is not well-formed XML
XmlWellFormed(t) == t = None \/ \A i \in 1..Len(t) : t[i] \notin {"&", "<"}

(***************************************************************************)
(* Metrics trees.  A node is a mapping (a sequence of <<key, node>> pairs, *)
(* in insertion order), a list, or a scalar: an int, a str, or a datetime, *)
(* which json cannot encode.  Keys are str.                                *)
(***************************************************************************)
IntNode(n) == [kind |-> "int", val |-> n]
StrNode(text) == [kind |-> "str", val |-> text]
DatetimeNode(dt) == [kind |-> "datetime", val |-> dt]
MapNode(pairs) == [kind |-> "map", val |-> pairs]
ListNode(items) == [kind |-> "list", val |-> items]

\* str(n) for a natural number
DigitChars == <<"0", "1", "2", "3", "4", "5", "6", "7", "8", "9">>
RECURSIVE IntStr(_)
IntStr(n) ==
    IF n < Len(DigitChars) THEN <<DigitChars[n + 1]>>
    ELSE IntStr(n \div Len(DigitChars)) \o <<DigitChars[(n % Len(DigitChars)) + 1]>>

\* _flatten_metrics, lines 81-97
RECURSIVE _flatten_metrics(_, _)
RECURSIVE FlattenItems(_, _)
RECURSIVE FlattenElements(_, _, _)

\* FlattenItems with the key alone as the path of a child
RECURSIVE FlattenItemsBareKey(_, _)
FlattenItemsBareKey(items, prefix) ==
    IF items = <<>> THEN <<>>
    ELSE _flatten_metrics(items[1][2], items[1][1])
         \o FlattenItemsBareKey(Tail(items), prefix)

\* lines 87-89: the loop over payload.items()
FlattenItems(items, prefix) ==
    IF items = <<>> THEN <<>>
    ELSE LET key == items[1][1]
             value == items[1][2]
             child_prefix == IF prefix # <<>> THEN prefix \o <<".">> \o key ELSE key
         IN  _flatten_metrics(value, child_prefix) \o FlattenItems(Tail(items), prefix)

\* lines 91-93: the loop over enumerate(payload), from index on
FlattenElements(elements, index, prefix) ==
    IF elements = <<>> THEN <<>>
    ELSE LET child_prefix ==
                 IF prefix # <<>> THEN prefix \o <<"[">> \o IntStr(index) \o <<"]">>
                 ELSE <<"[">> \o IntStr(index) \o <<"]">>
         IN  _flatten_metrics(Head(elements), child_prefix)
             \o FlattenElements(Tail(elements), index + 1, prefix)

_flatten_metrics(payload, prefix) ==
    IF payload.kind = "map" THEN FlattenItems(payload.val, prefix)
    ELSE IF payload.kind = "list" THEN FlattenElements(payload.val, 0, prefix)
    ELSE <<<<prefix, payload>>>>

\* str(datetime): seconds, and the fraction when it is not zero
DatetimeStr(dt) ==
    IF dt.micro = 0 THEN IntStr(dt.sec)
    ELSE IntStr(dt.sec) \o <<".">> \o IntStr(dt.micro)

\* does json.dumps(node, default=default) return: a value json cannot
\* encode is handed to default, and without one TypeError is raised
RECURSIVE Encodable(_, _)
Encodable(node, default) ==
    IF node.kind = "datetime" THEN default = "str"
    ELSE IF node.kind = "map"
    THEN \A i \in 1..Len(node.val) : Encodable(node.val[i][2], default)
    ELSE IF node.kind = "list"
    THEN \A i \in 1..Len(node.val) : Encodable(node.val[i], default)
    ELSE TRUE

\* json.dumps(node, default=str): the JSON document, as its values
RECURSIVE json_dumps(_)
json_dumps(node) ==
    IF node.kind = "map"
    THEN [kind |-> "object",
          val |-> [i \in 1..Len(node.val) |->
                      <<node.val[i][1], json_dumps(node.val[i][2])>>]]
    ELSE IF node.kind = "list"
    THEN [kind |-> "array", val |-> [i \in 1..Len(node.val) |-> json_dumps(node.val[i])]]
    ELSE IF node.kind = "int" THEN [kind |-> "number", val |-> node.val]
    ELSE IF node.kind = "str" THEN [kind |-> "string", val |-> node.val]
    ELSE [kind |-> "string", val |-> DatetimeStr(node.val)]

\* json.loads(document)
RECURSIVE json_loads(_)
json_loads(document) ==
    IF document.kind = "object"
    THEN MapNode([i \in 1..Len(document.val) |->
                     <<document.val[i][1], json_loads(document.val[i][2])>>])
    ELSE IF document.kind = "array"
    THEN ListNode([i \in 1..Len(document.val) |-> json_loads(document.val[i])])
    ELSE IF document.kind = "number" THEN IntNode(document.val)
    ELSE StrNode(document.val)

\* _serialise_metrics with json.dumps called without default=str
_serialise_metrics_without_default(metrics) ==
    IF Encodable(metrics, "none")
    THEN [kind |-> "returned", value |-> json_loads(json_dumps(metrics))]
    ELSE [kind |-> "raised", error |-> "TypeError"]

\* _serialise_metrics, lines 75-78: the normalised metrics, or the
\* exception json.dumps raises
_serialise_metrics(metrics) ==
    IF Encodable(metrics, "str")
    THEN [kind |-> "returned", value |-> json_loads(json_dumps(metrics))]
    ELSE [kind |-> "raised", error |-> "TypeError"]

\* the scalars and keys of the metrics trees of the model
Timestamp == [sec |-> 1, micro |-> 2]
Scalars == {IntNode(1), StrNode(<<"x">>), DatetimeNode(Timestamp)}
Keys == {<<>>, <<"a">>, <<"b">>}

\* the sequences of n distinct keys
KeySeqs(n) == {ks \in [1..n -> Keys] : \A i, j \in 1..n : i # j => ks[i] # ks[j]}

\* the trees of exactly n nodes, and the sequences of trees of n nodes in all
RECURSIVE TreesOfSize(_)
RECURSIVE ForestsOfSize(_)
ForestsOfSize(n) ==
    IF n = 0 THEN {<<>>}
    ELSE UNION {{<<t>> \o rest : t \in TreesOfSize(k), rest \in ForestsOfSize(n - k)} : k \in 1..n}

TreesOfSize(n) ==
    IF n = 1 THEN Scalars \cup {MapNode(<<>>), ListNode(<<>>)}
    ELSE {ListNode(f) : f \in ForestsOfSize(n - 1)}
         \cup UNION {{MapNode([i \in 1..Len(f) |-> <<ks[i], f[i]>>]) : ks \in KeySeqs(Len(f))} :
                        f \in {g \in ForestsOfSize(n - 1) : Len(g) <= Cardinality(Keys)}}

\* the metrics trees of the model: at most MaxNodes nodes
MetricsTrees == UNION {TreesOfSize(n) : n \in 1..MaxNodes}

(***************************************************************************)
(* The data model: StudyRecord, StudyAnalysisResult, BatchAnalysis.        *)
(***************************************************************************)
\* the scan root, as text
RootPath == <<"/", "r">>

\* DEFAULT_EXTENSIONS, the extensions that indicate CT image slices
DotDcm == <<".", "d", "c", "m">>
DotIma == <<".", "i", "m", "a">>
DEFAULT_EXTENSIONS == {DotDcm, DotIma}

\* a StudyRecord whose directory is rel under the scan root
StudyRecord(rel) ==
    [path |-> RootPath \o <<"/">> \o rel,
     relative_path |-> rel,
     file_count |-> 1,
     extensions |-> {DotDcm}]

\* the study directories of the model
Studies ==
    {StudyRecord(<<"a", "&", "b">>),
     StudyRecord(<<"a", "_", "b">>),
     StudyRecord(<<"c", "<">>),
     StudyRecord(<<"d">>)}

\* analyzer names: three that pylinac.ct offers, one that it does not
CatPhan503 == <<"C", "a", "t", "P", "h", "a", "n", "5", "0", "3">>
CatPhan504 == <<"C", "a", "t", "P", "h", "a", "n", "5", "0", "4">>
CatPhan600 == <<"C", "a", "t", "P", "h", "a", "n", "6", "0", "0">>
CatPhan999 == <<"C", "a", "t", "P", "h", "a", "n", "9", "9", "9">>

\* the analyzers the batches of the exporter name
BatchPhantoms == {CatPhan503, CatPhan504}
KnownPhantoms == BatchPhantoms \cup {CatPhan600}
\* the analyzer names the orchestrator is asked for
PhantomNames == BatchPhantoms \cup {CatPhan999}

\* datetime values: seconds and microseconds
Datetimes == [sec : {0, 1}, micro : 0..MaxMicro]
Epoch == [sec |-> 0, micro |-> 0]

\* what an analyzer reports for a study it analyzed: results() and
\* results_data(), a value and a timestamp
SummaryOf(study) == <<"o", "k">>
MetricsOf(study) ==
    MapNode(<< <<<<"v">>, IntNode(study.file_count)>>,
               <<<<"t">>, DatetimeNode(Timestamp)>> >>)
\* the default of the metrics field: an empty dict
NoMetrics == MapNode(<<>>)

\* StudyAnalysisResult(study, success=True, summary, metrics)
SuccessResult(study, summary, metrics) ==
    [study |-> study, success |-> TRUE, summary |-> summary,
     metrics |-> metrics, error |-> None]

\* StudyAnalysisResult(study, success=False, error): summary and metrics
\* keep their defaults
FailureResult(study, error) ==
    [study |-> study, success |-> FALSE, summary |-> None,
     metrics |-> NoMetrics, error |-> error]

Results ==
    {SuccessResult(st, SummaryOf(st), _serialise_metrics(MetricsOf(st)).value) :
        st \in Studies}
    \cup {FailureResult(st, <<"b", "o", "o", "m">>) : st \in Studies}

SeqsUpTo(S, n) == UNION {[1..k -> S] : k \in 0..n}

BatchAnalysis(phantom, generated_at, results) ==
    [phantom |-> phantom, generated_at |-> generated_at, results |-> results]

\* BatchAnalysis.successful_results
IsSuccess(result) == result.success

\* successful_results as a method that returns every result would do it
successful_results_unfiltered(batch) == batch.results

successful_results(batch) == SelectSeq(batch.results, IsSuccess)

\* BatchAnalysis.success_count, BatchAnalysis.failure_count
IsFailure(result) == ~result.success
success_count(batch) == Len(SelectSeq(batch.results, IsSuccess))
failure_count(batch) == Len(SelectSeq(batch.results, IsFailure))

\* the results and batches handed to the exporter: the successes of two
\* studies, and a failure, under an analyzer that run_catphan_analysis
\* could resolve
ExportResults ==
    {r \in Results : r.study.relative_path \in {<<"a", "&", "b">>, <<"a", "_", "b">>}
                     /\ (r.success \/ r.study.relative_path = <<"a", "&", "b">>)}

ExportBatches ==
    {BatchAnalysis(ph, Epoch, rs) :
        ph \in BatchPhantoms, rs \in SeqsUpTo(ExportResults, MaxBatch)}

(***************************************************************************)
(* State.                                                                  *)
(***************************************************************************)
VARIABLES
    env,        \* the analyzer integration: is pylinac importable
    file,       \* the destination file
    parentDir,  \* does the destination's parent directory exist
    reports,    \* the reports directory and the report files it holds
    clock,      \* datetime.now() of the orchestrator, a logical clock
    ex,         \* per exporting process: the position and locals of its call
    rn,         \* run_catphan_analysis: position, locals and outcome
    rt,         \* BatchAnalysis.to_dict / from_dict: the batch and its round trip
    iv,         \* build_inventory: the directory tree, position, locals and outcome
    sm,         \* the summary parser: the text, its merged lines, its entries
    mt,         \* the metrics flattener: the tree and its flattened pairs
    fn          \* _report_filename: the study id, the analyzer name, the file name

vars == <<env, file, parentDir, reports, clock, ex, rn, rt, iv, sm, mt, fn>>

\* the exporting processes; the sequential exporter is process 1
Procs == {1, 2}

\* a destination that does not exist
AbsentFile == [exists |-> FALSE, complete |-> FALSE, studies |-> <<>>]
\* a destination opened for writing whose document is not written out yet
TruncatedFile == [exists |-> TRUE, complete |-> FALSE, studies |-> <<>>]

NoReports == [exists |-> FALSE, files |-> {}]

\* a call that returned (exported, skipped)
Returned(exported, skipped) ==
    [kind |-> "returned", exported |-> exported, skipped |-> skipped, error |-> "none"]
\* a call that raised
Raised(error) == [kind |-> "raised", exported |-> 0, skipped |-> 0, error |-> error]
NoReturn == [kind |-> "none", exported |-> 0, skipped |-> 0, error |-> "none"]

EmptyBatch == BatchAnalysis(CatPhan503, Epoch, <<>>)

\* a process that is in no call
IdleCall ==
    [pc |-> "idle", batch |-> EmptyBatch, successes |-> <<>>, root |-> <<>>,
     existing_keys |-> {}, idx |-> 1, exported |-> 0, skipped |-> 0,
     ret |-> NoReturn, calls |-> 0, again |-> FALSE,
     resolved |-> FALSE, reads |-> 0, invoked |-> 0, added |-> {},
     report_failures |-> 0, writes |-> 0, made |-> <<>>,
     fileBefore |-> AbsentFile, parentBefore |-> FALSE, reportsBefore |-> NoReports,
     installedBefore |-> TRUE]

(***************************************************************************)
(* The summary parser: _normalise_summary, _looks_like_value and           *)
(* _emit_summary.                                                          *)
(***************************************************************************)
\* lines 103-104: the trimmed, non-blank lines of the summary
raw_lines(summary) ==
    LET normalised == replace(ReplaceCRLF(summary), "\r", "\n")
        lines == split(normalised, "\n", <<>>)
        stripped == [i \in 1..Len(lines) |-> strip(lines[i])]
        NonBlank(line) == line # <<>>
    IN  SelectSeq(stripped, NonBlank)

\* lines 109-119: the loop over raw_lines; its value is the pair of merged
\* and buffer after the last line
RECURSIVE MergeLines(_, _, _)
MergeLines(lines, buffer, merged) ==
    IF lines = <<>> THEN <<merged, buffer>>
    ELSE LET line == Head(lines)
             joined == IF buffer # <<>> THEN buffer \o <<" ">> \o line ELSE line
         IN  IF endswith(line, ":") \/ endswith(line, ",")
             THEN MergeLines(Tail(lines), joined, merged)
             ELSE MergeLines(Tail(lines), <<>>, Append(merged, strip(joined)))

\* _normalise_summary without the lines that emit what the buffer still holds
_normalise_summary_dropping_tail(summary) ==
    MergeLines(raw_lines(summary), <<>>, <<>>)[1]

\* _normalise_summary, lines 100-124
_normalise_summary(summary) ==
    LET loop == MergeLines(raw_lines(summary), <<>>, <<>>)
        merged == loop[1]
        buffer == loop[2]
    IN  IF buffer # <<>> THEN Append(merged, strip(buffer)) ELSE merged

\* the words _looks_like_value takes for a value
BooleanWords ==
    {<<"t", "r", "u", "e">>, <<"f", "a", "l", "s", "e">>, <<"y", "e", "s">>,
     <<"n", "o">>, <<"p", "a", "s", "s">>, <<"f", "a", "i", "l">>}

Digits == {"0", "1", "2", "3", "4", "5", "6", "7", "8", "9"}

\* a run of digits in which an underscore stands between two digits only
IsDigitGroup(s) ==
    \A i \in 1..Len(s) :
        \/ s[i] \in Digits
        \/ /\ s[i] = "_" /\ 1 < i /\ i < Len(s)
           /\ s[i - 1] \in Digits /\ s[i + 1] \in Digits

\* digits, with at most one decimal point and a digit on one side of it
IsDecimal(s) ==
    LET points == Positions(s, ".")
    IN  IF points = {} THEN s # <<>> /\ IsDigitGroup(s)
        ELSE /\ Cardinality(points) = 1
             /\ LET p == Smallest(points)
                    whole == SubSeq(s, 1, p - 1)
                    fraction == SubSeq(s, p + 1, Len(s))
                IN  /\ IsDigitGroup(whole) /\ IsDigitGroup(fraction)
                    /\ (whole # <<>> \/ fraction # <<>>)

\* float(text) returns rather than raising ValueError
ParsesAsFloat(text) ==
    LET t == strip(text)
        unsigned == IF t # <<>> /\ t[1] \in {"+", "-"} THEN Tail(t) ELSE t
        exps == Positions(lower(unsigned), "e")
    IN  \/ lower(unsigned) \in {<<"i", "n", "f">>, <<"n", "a", "n">>,
                                 <<"i", "n", "f", "i", "n", "i", "t", "y">>}
        \/ exps = {} /\ IsDecimal(unsigned)
        \/ /\ Cardinality(exps) = 1
           /\ LET e == Smallest(exps)
                  mantissa == SubSeq(unsigned, 1, e - 1)
                  exponent == SubSeq(unsigned, e + 1, Len(unsigned))
                  digits == IF exponent # <<>> /\ exponent[1] \in {"+", "-"}
                            THEN Tail(exponent) ELSE exponent
              IN  /\ IsDecimal(mantissa)
                  /\ digits # <<>> /\ IsDigitGroup(digits)

\* _looks_like_value with the words compared as they are spelled
_looks_like_value_case_sensitive(token) ==
    LET cleaned == strip(token)
    IN  IF cleaned = <<>> THEN FALSE
        ELSE IF cleaned \in BooleanWords THEN TRUE
        ELSE ParsesAsFloat(remove(cleaned, ","))

\* _looks_like_value, lines 127-143
_looks_like_value(token) ==
    LET cleaned == strip(token)
    IN  IF cleaned = <<>> THEN FALSE
        ELSE IF lower(cleaned) \in BooleanWords THEN TRUE
        ELSE ParsesAsFloat(remove(cleaned, ","))

\* the children of a Summary element
Section(text) == [tag |-> "Section", name |-> None, text |-> text]
Item(name, value) == [tag |-> "Item", name |-> name, text |-> value]
Note(text) == [tag |-> "Note", name |-> None, text |-> text]

\* x or None
OrNone(x) == IF x = <<>> THEN None ELSE x

\* lines 158-170: the key and value of an entry that is no section
KeyValue(stripped) ==
    IF Positions(stripped, ":") # {}
    THEN LET i == Smallest(Positions(stripped, ":"))
             potential_key == SubSeq(stripped, 1, i - 1)
             potential_value == SubSeq(stripped, i + 1, Len(stripped))
         IN  [key |-> strip(potential_key), value |-> OrNone(strip(potential_value))]
    ELSE IF Positions(stripped, " ") # {}
    THEN LET i == Largest(Positions(stripped, " "))
             pieces == <<SubSeq(stripped, 1, i - 1), SubSeq(stripped, i + 1, Len(stripped))>>
         IN  IF _looks_like_value(pieces[2])
             THEN [key |-> strip(pieces[1]), value |-> OrNone(strip(pieces[2]))]
             ELSE [key |-> None, value |-> None]
    ELSE [key |-> None, value |-> None]

\* lines 150-178: the element emitted for one merged entry
EmitEntry(entry) ==
    LET stripped == strip(entry)
        inner == strip(strip_chars(stripped, {"-"}))
    IN  IF startswith(stripped, "-") /\ endswith(stripped, "-") /\ inner # <<>>
        THEN Section(inner)
        ELSE LET kv == KeyValue(stripped)
             IN  IF kv.key \notin {None, <<>>}
                 THEN Item(kv.key, kv.value)
                 ELSE Note(stripped)

\* _emit_summary, lines 146-178: the children of summary_el, in order
_emit_summary(summary) ==
    LET merged == _normalise_summary(summary)
    IN  [i \in 1..Len(merged) |-> EmitEntry(merged[i])]

(***************************************************************************)
(* The export document.  A Study element in memory holds its attributes    *)
(* and children as text; the file holds them as the writer wrote them.     *)
(***************************************************************************)
\* str(metric_value)
ValueStr(value) ==
    IF value.kind = "int" THEN IntStr(value.val)
    ELSE IF value.kind = "datetime" THEN DatetimeStr(value.val)
    ELSE value.val

\* lines 386-390: the Metric children of the Metrics element; a Metric has
\* no name attribute when its path is empty
MetricElements(flattened_metrics) ==
    [i \in 1..Len(flattened_metrics) |->
        [tag |-> "Metric",
         name |-> IF flattened_metrics[i][1] # <<>> THEN flattened_metrics[i][1] ELSE None,
         text |-> ValueStr(flattened_metrics[i][2])]]

\* ET.SubElement(root, "Study", {...}) and its children, lines 355-390; the
\* Summary and Metrics elements as the sequences of their children, empty
\* when the element is not made
StudyElement(result, phantom, now, report_path) ==
    [id |-> result.study.relative_path,
     phantom |-> phantom,
     exported_at |-> now,
     AbsolutePath |-> result.study.path,
     Report |-> report_path,
     Summary |-> IF result.summary \notin {None, <<>>}
                 THEN _emit_summary(result.summary) ELSE <<>>,
     Metrics |-> MetricElements(_flatten_metrics(result.metrics, <<>>))]

\* tree.write: the children of a Summary or Metrics element, escaped
WriteChildren(children) ==
    [i \in 1..Len(children) |->
        [children[i] EXCEPT !.name = XmlEscape(@), !.text = XmlEscape(@)]]

\* ET.parse: the children of a Summary or Metrics element, unescaped
ParseChildren(children) ==
    [i \in 1..Len(children) |->
        [children[i] EXCEPT !.name = XmlUnescape(@), !.text = XmlUnescape(@)]]

ChildrenWellFormed(children) ==
    \A i \in 1..Len(children) :
        XmlWellFormed(children[i].name) /\ XmlWellFormed(children[i].text)

\* tree.write: the texts of an element, escaped
WriteElement(el) ==
    [el EXCEPT !.id = XmlEscape(@), !.phantom = XmlEscape(@),
               !.AbsolutePath = XmlEscape(@), !.Report = XmlEscape(@),
               !.Summary = WriteChildren(@), !.Metrics = WriteChildren(@)]

\* ET.parse: the texts of an element, unescaped
ParseElement(w) ==
    [w EXCEPT !.id = XmlUnescape(@), !.phantom = XmlUnescape(@),
              !.AbsolutePath = XmlUnescape(@), !.Report = XmlUnescape(@),
              !.Summary = ParseChildren(@), !.Metrics = ParseChildren(@)]

ElementWellFormed(w) ==
    /\ XmlWellFormed(w.id) /\ XmlWellFormed(w.phantom)
    /\ XmlWellFormed(w.AbsolutePath) /\ XmlWellFormed(w.Report)
    /\ ChildrenWellFormed(w.Summary) /\ ChildrenWellFormed(w.Metrics)

\* tree.write(destination): the whole document
WriteDocument(root) == [i \in 1..Len(root) |-> WriteElement(root[i])]

\* ET.parse(destination) succeeds on a complete, well-formed document
Parseable(f) ==
    f.complete /\ \A i \in 1..Len(f.studies) : ElementWellFormed(f.studies[i])

\* root.findall("Study") of the parsed document
ParseDocument(f) == [i \in 1..Len(f.studies) |-> ParseElement(f.studies[i])]

\* the Study elements a reader of the destination finds (none when it
\* cannot be read)
StudiesOf(f) == IF f.exists /\ Parseable(f) THEN ParseDocument(f) ELSE <<>>

\* the identity pair of a Study element
KeyOf(el) == <<el.id, el.phantom>>

\* ExistingKeys as a call that does not look at the Study elements the
\* document holds would do it
ExistingKeysOfNothing(root) == {}

\* existing_keys, lines 340-343
ExistingKeys(root) == {KeyOf(root[i]) : i \in 1..Len(root)}

\* key = (study_id, batch.phantom), lines 349-350
ResultKey(result, phantom) == <<result.study.relative_path, phantom>>

(***************************************************************************)
(* export_pass_results_to_xml, one action per step of a call.              *)
(***************************************************************************)
\* _load_catphan_class: the error it raises, or "none"
LoadError(installed, phantom_name) ==
    IF ~installed THEN "PylinacNotInstalledError"
    ELSE IF phantom_name \notin KnownPhantoms THEN "PhantomNotAvailableError"
    ELSE "none"

\* the from_dir attribute of the analyzer types: a class method, an
\* attribute that cannot be called, or no attribute at all
FromDirOf(catphan_cls) ==
    CASE catphan_cls = CatPhan503 -> "classmethod"
      [] catphan_cls = CatPhan600 -> "attribute"
      [] OTHER -> "missing"

\* the analyzer types that offer a callable from_dir
OffersFromDir == {cls \in KnownPhantoms : FromDirOf(cls) = "classmethod"}

\* ConstructorUsed as a helper that always constructs the analyzer directly
\* would do it
ConstructorUsedDirect(catphan_cls) == "__init__"

\* lines 53-56, _create_catphan_instance: the constructor it uses
ConstructorUsed(catphan_cls) ==
    LET from_dir == IF FromDirOf(catphan_cls) = "missing" THEN "None"
                    ELSE FromDirOf(catphan_cls)
        callable(attribute) == attribute = "classmethod"
    IN  IF callable(from_dir) THEN "from_dir" ELSE "__init__"

\* what the report step of one new Study can do: render the report, or raise
\* in _create_catphan_instance, analyze, reports_dir.mkdir or publish_pdf
ReportOutcomes ==
    {"rendered", "construct_raises", "analyze_raises", "mkdir_raises", "publish_raises"}

\* the call ends with ret
Finish(c, ret) == [c EXCEPT !.pc = "done", !.ret = ret]

\* the call about to start exports once more the batch that the call before
\* it, c, exported to a destination that did not exist
RepeatsFreshExport(c, batch) ==
    /\ c.pc = "done" /\ c.ret.kind = "returned"
    /\ c.batch = batch
    /\ ~c.fileBefore.exists

\* StartCall with the analyzer resolved before the batch is looked at
StartCallResolvingFirst(c) ==
    LET err == LoadError(env.installed, c.batch.phantom)
        d == [c EXCEPT !.resolved = TRUE]
    IN  IF err # "none" THEN Finish(d, Raised(err))
        ELSE IF d.successes = <<>> THEN Finish(d, Returned(0, 0))
        ELSE [d EXCEPT !.pc = "load"]

\* StartCall as a call that leaves the analyzer type unresolved until a
\* report is to be rendered would do it
StartCallReadingFirst(c) ==
    IF c.successes = <<>> THEN Finish(c, Returned(0, 0)) ELSE [c EXCEPT !.pc = "load"]

\* lines 324-326: a batch with no success returns (0, 0) at once
StartCall(c) ==
    IF c.successes = <<>> THEN Finish(c, Returned(0, 0)) ELSE [c EXCEPT !.pc = "resolve"]

\* lines 307-326: the call starts
ExportCall(p, batch) ==
    /\ ex[p].pc \in {"idle", "done"}
    /\ ex[p].calls < MaxCalls
    /\ LET successes == successful_results(batch)
           c == [IdleCall EXCEPT
                   !.batch = batch, !.successes = successes,
                   !.calls = ex[p].calls + 1,
                   !.again = RepeatsFreshExport(ex[p], batch),
                   !.fileBefore = file, !.parentBefore = parentDir,
                   !.reportsBefore = reports, !.installedBefore = env.installed]
       IN  ex' = [ex EXCEPT ![p] = StartCall(c)]
    /\ UNCHANGED <<env, file, parentDir, reports, clock, rn, rt, iv, sm, mt, fn>>

\* lines 328-331: the analyzer type is resolved, or the call raises
ExportResolve(p) ==
    /\ ex[p].pc = "resolve"
    /\ LET c == [ex[p] EXCEPT !.resolved = TRUE]
           err == LoadError(env.installed, c.batch.phantom)
       IN  ex' = [ex EXCEPT ![p] =
                    IF err # "none" THEN Finish(c, Raised(err))
                    ELSE [c EXCEPT !.pc = "load"]]
    /\ UNCHANGED <<env, file, parentDir, reports, clock, rn, rt, iv, sm, mt, fn>>

\* LoadRoot as a call that always starts a fresh document would do it
LoadRootFresh(f) == <<>>

\* lines 333-338: the Study elements of the parsed document, or of a fresh one
LoadRoot(f) == IF f.exists THEN ParseDocument(f) ELSE <<>>

\* lines 333-346: the document is parsed, or started afresh
ExportLoad(p) ==
    /\ ex[p].pc = "load"
    /\ LET c == [ex[p] EXCEPT !.reads = @ + 1]
       IN  ex' = [ex EXCEPT ![p] =
                    IF file.exists /\ ~Parseable(file) THEN Finish(c, Raised("ParseError"))
                    ELSE LET root == LoadRoot(file)
                         IN  [c EXCEPT !.pc = "loop", !.root = root,
                                       !.existing_keys = ExistingKeys(root),
                                       !.idx = 1, !.exported = 0, !.skipped = 0]]
    /\ UNCHANGED <<env, file, parentDir, reports, clock, rn, rt, iv, sm, mt, fn>>

\* AfterIteration as a call that writes the document out whenever the loop
\* ends would do it
AfterIterationAlwaysWrites(c) ==
    IF c.idx <= Len(c.successes) THEN c ELSE [c EXCEPT !.pc = "write"]

\* after the last iteration, lines 395-399: write if anything was exported
AfterIteration(c) ==
    IF c.idx <= Len(c.successes) THEN c
    ELSE IF c.exported > 0 THEN [c EXCEPT !.pc = "write"]
    ELSE Finish(c, Returned(c.exported, c.skipped))

\* IsExisting with the study id alone as the key
IsExistingById(key, existing_keys) == \E k \in existing_keys : k[1] = key[1]

\* lines 351-353: is the result skipped as already present
IsExisting(key, existing_keys) == key \in existing_keys

\* lines 348-353: an iteration over a result that is already present
ExportSkip(p) ==
    /\ ex[p].pc = "loop"
    /\ LET c == ex[p]
           result == c.successes[c.idx]
       IN  /\ IsExisting(ResultKey(result, c.batch.phantom), c.existing_keys)
           /\ ex' = [ex EXCEPT ![p] =
                       AfterIteration([c EXCEPT !.skipped = @ + 1, !.idx = @ + 1])]
    /\ UNCHANGED <<env, file, parentDir, reports, clock, rn, rt, iv, sm, mt, fn>>

\* lines 366-377: the Report child of a new Study: a path when the report
\* was rendered, None when anything in the report step raised
ReportPathOf(outcome, study_id, phantom) ==
    IF outcome = "rendered" THEN _report_filename(study_id, phantom) ELSE None

\* Caught with a handler that catches what publish_pdf raises only
CaughtFromPublishOnly(outcome) == outcome = "publish_raises"

\* lines 373-374: except Exception catches whatever the report step raises
Caught(outcome) == outcome \in ReportOutcomes \ {"rendered"}

\* line 361: datetime.now(UTC) as a logical time, the number of the call and
\* of the element within it
Now(c) == <<c.calls, c.exported>>

\* lines 348-393: an iteration that appends a new Study
ExportAppend(p, outcome) ==
    /\ ex[p].pc = "loop"
    /\ LET c == ex[p]
           result == c.successes[c.idx]
           key == ResultKey(result, c.batch.phantom)
           report_path == ReportPathOf(outcome, key[1], key[2])
           study_el == StudyElement(result, c.batch.phantom, Now(c), report_path)
           \* line 368: _create_catphan_instance(catphan_cls, result.study.path)
           made == [via |-> ConstructorUsed(c.batch.phantom),
                    directory |-> result.study.path]
       IN  /\ ~IsExisting(key, c.existing_keys)
           /\ ex' = [ex EXCEPT ![p] =
                       IF outcome # "rendered" /\ ~Caught(outcome)
                       THEN Finish([c EXCEPT !.invoked = @ + 1, !.report_failures = @ + 1,
                                             !.made = Append(@, made)],
                                   Raised("Exception"))
                       ELSE AfterIteration(
                           [c EXCEPT !.root = Append(@, study_el),
                                     !.existing_keys = @ \cup {key},
                                     !.exported = @ + 1, !.idx = @ + 1,
                                     !.invoked = @ + 1,
                                     !.made = Append(@, made),
                                     !.added = @ \cup {key},
                                     !.report_failures =
                                         IF outcome = "rendered" THEN @ ELSE @ + 1])]
           \* reports_dir.mkdir(parents=True) is reached once analyze() returned
           /\ IF outcome \in {"rendered", "publish_raises"}
              THEN /\ parentDir' = TRUE
                   /\ reports' =
                        [exists |-> TRUE,
                         files |-> IF outcome = "rendered"
                                   THEN {f \in reports.files : f[1] # report_path}
                                        \cup {<<report_path, key>>}
                                   ELSE reports.files]
              ELSE UNCHANGED <<parentDir, reports>>
    /\ UNCHANGED <<env, file, clock, rn, rt, iv, sm, mt, fn>>

\* lines 396-397: the parent directory is made and the destination is opened
\* for writing, which truncates it
ExportWriteOpen(p) ==
    /\ ex[p].pc = "write"
    /\ parentDir' = TRUE
    /\ file' = TruncatedFile
    /\ ex' = [ex EXCEPT ![p].pc = "flush", ![p].writes = @ + 1]
    /\ UNCHANGED <<env, reports, clock, rn, rt, iv, sm, mt, fn>>

\* what the destination holds once tree.write returned
WrittenFile(root) == [exists |-> TRUE, complete |-> TRUE, studies |-> WriteDocument(root)]

\* line 397: the document is written out and the call returns; or the
\* write is cut short (an I/O error, the process is stopped) and the
\* destination keeps what was written so far
ExportWriteFlush(p, completes) ==
    /\ ex[p].pc = "flush"
    /\ IF completes
       THEN /\ file' = WrittenFile(ex[p].root)
            /\ ex' = [ex EXCEPT ![p] =
                        Finish(ex[p], Returned(ex[p].exported, ex[p].skipped))]
       ELSE /\ file' = file
            /\ ex' = [ex EXCEPT ![p] = Finish(ex[p], Raised("OSError"))]
    /\ UNCHANGED <<env, parentDir, reports, clock, rn, rt, iv, sm, mt, fn>>

ExportStep(p) ==
    \/ \E batch \in ExportBatches : ExportCall(p, batch)
    \/ ExportResolve(p)
    \/ ExportLoad(p)
    \/ ExportSkip(p)
    \/ \E outcome \in ReportOutcomes : ExportAppend(p, outcome)
    \/ ExportWriteOpen(p)
    \/ \E completes \in BOOLEAN : ExportWriteFlush(p, completes)

(***************************************************************************)
(* run_catphan_analysis, one action per step of a call.                    *)
(***************************************************************************)
\* is pylinac importable
Environments == [installed : BOOLEAN]

\* the inventories handed to the orchestrator: relative paths are unique
\* within an inventory
Inventories ==
    {inv \in SeqsUpTo(Studies, MaxStudies) :
        \A i, j \in 1..Len(inv) : i # j => inv[i] # inv[j]}

\* the messages of the exceptions an analyzer raises
Messages == {<<"b", "o", "o", "m">>, <<"b", "a", "d">>}

\* what the analyzer does for one study: all four calls return, or one of
\* them raises
AnalyzerOutcomes ==
    {"ok", "construct_raises", "analyze_raises", "results_raises", "results_data_raises"}

RunIdle ==
    [pc |-> "idle", inventory |-> <<>>, phantom_name |-> CatPhan503, idx |-> 1,
     results |-> <<>>, log |-> <<>>, ret |-> [kind |-> "none"]]

\* the call starts
RunCall(inventory, phantom_name) ==
    /\ rn.pc = "idle"
    /\ rn' = [RunIdle EXCEPT !.pc = "load", !.inventory = inventory,
                             !.phantom_name = phantom_name]
    /\ UNCHANGED <<env, file, parentDir, reports, clock, ex, rt, iv, sm, mt, fn>>

\* RunLoad as an orchestrator that resolves the analyzer type only when
\* there is a study to analyze would do it
RunLoadLazy ==
    /\ rn.pc = "load"
    /\ LET err == LoadError(env.installed, rn.phantom_name)
       IN  rn' = IF err # "none" /\ rn.inventory # <<>>
                 THEN [rn EXCEPT !.pc = "done", !.ret = [kind |-> "raised", error |-> err]]
                 ELSE [rn EXCEPT !.pc = "loop"]
    /\ UNCHANGED <<env, file, parentDir, reports, clock, ex, rt, iv, sm, mt, fn>>

\* line 264: the analyzer type is resolved, or the call raises
RunLoad ==
    /\ rn.pc = "load"
    /\ LET err == LoadError(env.installed, rn.phantom_name)
       IN  rn' = IF err # "none"
                 THEN [rn EXCEPT !.pc = "done", !.ret = [kind |-> "raised", error |-> err]]
                 ELSE [rn EXCEPT !.pc = "loop"]
    /\ UNCHANGED <<env, file, parentDir, reports, clock, ex, rt, iv, sm, mt, fn>>

\* str(exc) of the TypeError json.dumps raises
NotSerializable ==
    <<"n", "o", "t", " ", "J", "S", "O", "N", " ",
      "s", "e", "r", "i", "a", "l", "i", "z", "a", "b", "l", "e">>

\* lines 268-288: the result of one study whose analyzer returns summary
\* and results_data when outcome is "ok" and raises message otherwise:
\* the try body ran through, or the except clause caught an exception
TryStudy(study, outcome, message, summary, results_data) ==
    IF outcome = "ok"
    THEN LET metrics == _serialise_metrics(results_data)
         IN  IF metrics.kind = "returned"
             THEN SuccessResult(study, summary, metrics.value)
             ELSE FailureResult(study, NotSerializable)
    ELSE FailureResult(study, message)

\* StudyResult as a loop that records a failure without its message would do it
StudyResultNoMessage(study, outcome, message) ==
    IF outcome = "ok" THEN TryStudy(study, outcome, message, SummaryOf(study), MetricsOf(study))
    ELSE FailureResult(study, None)

\* lines 267-288: the result of one study of the inventory
StudyResult(study, outcome, message) ==
    TryStudy(study, outcome, message, SummaryOf(study), MetricsOf(study))

\* RunStudy as a loop that records the studies it analyzed and passes over
\* the ones whose analysis raised would do it
RunStudyDroppingFailures(outcome, message) ==
    /\ rn.pc = "loop"
    /\ rn.idx <= Len(rn.inventory)
    /\ outcome = "ok" => message = None
    /\ outcome # "ok" => message \in Messages
    /\ LET study == rn.inventory[rn.idx]
       IN  rn' = [rn EXCEPT
                    !.results = IF outcome = "ok"
                                THEN Append(@, StudyResult(study, outcome, message))
                                ELSE @,
                    !.log = Append(@, [study |-> study, outcome |-> outcome,
                                       message |-> message,
                                       via |-> ConstructorUsed(rn.phantom_name),
                                       directory |-> study.path]),
                    !.idx = @ + 1]
    /\ UNCHANGED <<env, file, parentDir, reports, clock, ex, rt, iv, sm, mt, fn>>

\* lines 267-288: one iteration of the loop over inventory.studies
RunStudy(outcome, message) ==
    /\ rn.pc = "loop"
    /\ rn.idx <= Len(rn.inventory)
    /\ outcome = "ok" => message = None
    /\ outcome # "ok" => message \in Messages
    /\ LET study == rn.inventory[rn.idx]
       IN  rn' = [rn EXCEPT
                    !.results = Append(@, StudyResult(study, outcome, message)),
                    !.log = Append(@, [study |-> study, outcome |-> outcome,
                                       message |-> message,
                                       via |-> ConstructorUsed(rn.phantom_name),
                                       directory |-> study.path]),
                    !.idx = @ + 1]
    /\ UNCHANGED <<env, file, parentDir, reports, clock, ex, rt, iv, sm, mt, fn>>

\* line 290: the batch is returned
RunReturn ==
    /\ rn.pc = "loop"
    /\ rn.idx > Len(rn.inventory)
    /\ rn' = [rn EXCEPT !.pc = "done",
                        !.ret = [kind |-> "returned",
                                 batch |-> BatchAnalysis(rn.phantom_name,
                                                         [sec |-> clock, micro |-> 0],
                                                         rn.results)]]
    /\ UNCHANGED <<env, file, parentDir, reports, clock, ex, rt, iv, sm, mt, fn>>

(***************************************************************************)
(* build_inventory, one action per step of a call.  The scan root holds a  *)
(* tree of real directories (no symbolic links); each directory lists the  *)
(* names of the files directly in it.                                      *)
(***************************************************************************)
\* the directories under the scan root, each the sequence of names that
\* leads to it; the root is the empty sequence
ScanRoot == <<>>
Dirs == {ScanRoot, <<"a">>, <<"a", "b">>, <<"d">>}

\* the subdirectories directly in dir
Children(dir) == {c \in Dirs : Len(c) = Len(dir) + 1 /\ IsPrefix(dir, c)}

\* the directories above dir, the root included
Ancestors(dir) == {a \in Dirs : Len(a) < Len(dir) /\ IsPrefix(a, dir)}

\* the file names of the model: two image slices, one of them named in
\* upper case, and a hidden file, which has no suffix
FileNames ==
    {<<"s", ".", "d", "c", "m">>,
     <<"I", ".", "I", "M", "A">>,
     <<".", "d", "c", "m">>}

\* what the directories hold: at most MaxFiles files each
Trees ==
    [Dirs -> {names \in SUBSET FileNames : Cardinality(names) <= MaxFiles}]

EmptyTree == [dir \in Dirs |-> {}]

\* the scan root on disk: a directory tree, nothing, or a plain file
FileSystems ==
    {[root_kind |-> "dir", tree |-> t] : t \in Trees}
    \cup {[root_kind |-> k, tree |-> EmptyTree] : k \in {"missing", "file"}}

\* the extensions argument: the default, and one given in upper case
ExtensionArgs == {DEFAULT_EXTENSIONS, {<<".", "I", "M", "A">>}}

\* str(current_path.relative_to(root_path))
RECURSIVE JoinPath(_)
JoinPath(dir) ==
    IF dir = <<>> THEN <<>>
    ELSE IF Len(dir) = 1 THEN <<dir[1]>>
    ELSE <<dir[1], "/">> \o JoinPath(Tail(dir))

RelativePath(dir) == IF dir = ScanRoot THEN <<".">> ELSE JoinPath(dir)

AbsolutePath(dir) ==
    IF dir = ScanRoot THEN RootPath ELSE RootPath \o <<"/">> \o JoinPath(dir)

\* _filter_files with the suffix compared as it is spelled
_filter_files_case_sensitive(filenames, extensions) ==
    {name \in filenames : suffix(name) \in extensions}

\* _filter_files: the names whose lower-cased suffix is an allowed extension
_filter_files(filenames, extensions) ==
    {name \in filenames : lower(suffix(name)) \in extensions}

\* lines 97-102: the record of a study directory
ScanRecord(dir, matching_files) ==
    [path |-> AbsolutePath(dir),
     relative_path |-> RelativePath(dir),
     file_count |-> Cardinality(matching_files),
     extensions |-> {lower(suffix(name)) : name \in matching_files}]

\* the orders in which os.walk may list the subdirectories of a directory
Orderings(S) ==
    {order \in [1..Cardinality(S) -> S] :
        \A i, j \in 1..Cardinality(S) : i # j => order[i] # order[j]}

ScanIdle ==
    [pc |-> "idle", root_kind |-> "dir", tree |-> EmptyTree, extensions |-> {},
     normalised_extensions |-> {},
     stack |-> <<>>, visited |-> <<>>, studies |-> <<>>, ret |-> [kind |-> "none"]]

\* lines 78-86: the root is checked and the walk starts
ScanCall(extensions) ==
    /\ iv.pc = "idle"
    /\ iv' = IF iv.root_kind = "missing"
             THEN [iv EXCEPT !.pc = "done",
                             !.ret = [kind |-> "raised", error |-> "FileNotFoundError"]]
             ELSE IF iv.root_kind = "file"
             THEN [iv EXCEPT !.pc = "done",
                             !.ret = [kind |-> "raised", error |-> "NotADirectoryError"]]
             ELSE [iv EXCEPT !.pc = "walk",
                             !.extensions = extensions,
                             !.normalised_extensions = {lower(ext) : ext \in extensions},
                             !.stack = <<ScanRoot>>]
    /\ UNCHANGED <<env, file, parentDir, reports, clock, ex, rn, rt, sm, mt, fn>>

\* WalkNext with a walk that descends below a study directory too
WalkNextNoPrune(dir, matching_files, order) == order

\* lines 91-92, 107: the directories os.walk visits after dir, in order:
\* its subdirectories, or none once dir is a study (dirnames[:] = [])
WalkNext(dir, matching_files, order) ==
    IF matching_files = {} THEN order ELSE <<>>

\* lines 88-107: one iteration of the loop over os.walk, top-down
ScanDir ==
    /\ iv.pc = "walk"
    /\ iv.stack # <<>>
    /\ LET current_path == Head(iv.stack)
           matching_files == _filter_files(iv.tree[current_path], iv.normalised_extensions)
       IN  \E order \in Orderings(Children(current_path)) :
              iv' = [iv EXCEPT
                        !.visited = Append(@, current_path),
                        !.studies =
                            IF matching_files = {} THEN @
                            ELSE Append(@, ScanRecord(current_path, matching_files)),
                        !.stack = WalkNext(current_path, matching_files, order)
                                  \o Tail(@)]
    /\ UNCHANGED <<env, file, parentDir, reports, clock, ex, rn, rt, sm, mt, fn>>

\* lines 109-110: the inventory is returned
ScanReturn ==
    /\ iv.pc = "walk"
    /\ iv.stack = <<>>
    /\ iv' = [iv EXCEPT !.pc = "done",
                        !.ret = [kind |-> "returned",
                                 inventory |-> [root |-> RootPath,
                                                generated_at |-> [sec |-> clock, micro |-> 0],
                                                studies |-> iv.studies]]]
    /\ UNCHANGED <<env, file, parentDir, reports, clock, ex, rn, rt, sm, mt, fn>>

(***************************************************************************)
(* The summary parser on the summary texts of the model.                   *)
(***************************************************************************)
\* the pieces the summary texts of the model are made of
Median == <<"M", "e", "d", "i", "a", "n">>
Pieces ==
    {Median, <<"1", "2", ".", "3">>, <<"N", "o">>,
     <<":">>, <<",">>, <<"-">>, <<" ">>, <<"\n">>}

RECURSIVE Concat(_)
Concat(pieces) == IF pieces = <<>> THEN <<>> ELSE Head(pieces) \o Concat(Tail(pieces))

\* the summary texts: at most MaxPieces pieces, one after the other
SummaryTexts == {Concat(pieces) : pieces \in SeqsUpTo(Pieces, MaxPieces)}

SummaryIdle == [pc |-> "input", summary |-> <<>>, merged |-> <<>>, entries |-> <<>>]

\* _normalise_summary(summary)
SummaryNormalise ==
    /\ sm.pc = "input"
    /\ sm' = [sm EXCEPT !.pc = "normalised", !.merged = _normalise_summary(sm.summary)]
    /\ UNCHANGED <<env, file, parentDir, reports, clock, ex, rn, rt, iv, mt, fn>>

\* _emit_summary(summary_el, summary)
SummaryEmit ==
    /\ sm.pc = "normalised"
    /\ sm' = [sm EXCEPT !.pc = "emitted", !.entries = _emit_summary(sm.summary)]
    /\ UNCHANGED <<env, file, parentDir, reports, clock, ex, rn, rt, iv, mt, fn>>

(***************************************************************************)
(* The metrics flattener, and the loop body of run_catphan_analysis, on    *)
(* the metrics trees of the model.                                         *)
(***************************************************************************)
MetricsIdle ==
    [pc |-> "input", payload |-> NoMetrics, flattened |-> <<>>, recorded |-> [kind |-> "none"]]

\* the study whose analyzer returns the tree
MetricsStudy == StudyRecord(<<"d">>)

\* _flatten_metrics(payload)
MetricsFlatten ==
    /\ mt.pc = "input"
    /\ mt' = [mt EXCEPT !.pc = "flattened",
                        !.flattened = _flatten_metrics(mt.payload, <<>>)]
    /\ UNCHANGED <<env, file, parentDir, reports, clock, ex, rn, rt, iv, sm, fn>>

\* lines 268-288 for a study whose results_data() returns the tree, a dict
MetricsRecord ==
    /\ mt.pc = "flattened"
    /\ mt.payload.kind = "map"
    /\ mt' = [mt EXCEPT !.pc = "recorded",
                        !.recorded = [kind |-> "result",
                                      result |-> TryStudy(MetricsStudy, "ok", None,
                                                          SummaryOf(MetricsStudy), mt.payload)]]
    /\ UNCHANGED <<env, file, parentDir, reports, clock, ex, rn, rt, iv, sm, fn>>

(***************************************************************************)
(* _report_filename on the study ids and analyzer names of the model.      *)
(***************************************************************************)
\* the characters of the names: a letter, the other characters of the
\* class, both path separators and a character outside the class
NameChars == {"a", ".", "_", "/", "\\", "&"}

\* the study ids and analyzer names: at most MaxChars characters, the empty
\* name included
Names == SeqsUpTo(NameChars, MaxChars)

FilenameIdle ==
    [pc |-> "input", study_id |-> <<>>, phantom |-> <<>>, name |-> <<>>]

\* lines 293-304: the call returns the file name
FilenameCall ==
    /\ fn.pc = "input"
    /\ fn' = [fn EXCEPT !.pc = "returned",
                        !.name = _report_filename(fn.study_id, fn.phantom)]
    /\ UNCHANGED <<env, file, parentDir, reports, clock, ex, rn, rt, iv, sm, mt>>

(***************************************************************************)
(* BatchAnalysis.to_dict and BatchAnalysis.from_dict.                      *)
(***************************************************************************)
\* datetime.isoformat: the fraction is left out when it is zero
isoformat(dt) == IF dt.micro = 0 THEN <<dt.sec>> ELSE <<dt.sec, dt.micro>>

\* datetime.fromisoformat
fromisoformat(text) ==
    [sec |-> text[1], micro |-> IF Len(text) = 2 THEN text[2] ELSE 0]

\* sorted(extensions)
ExtensionOrder == <<DotDcm, DotIma>>
Sorted(extensions) ==
    LET Member(x) == x \in extensions IN SelectSeq(ExtensionOrder, Member)

\* StudyRecord.to_dict
StudyRecord_to_dict(study) ==
    [path |-> study.path, relative_path |-> study.relative_path,
     file_count |-> study.file_count, extensions |-> Sorted(study.extensions)]

\* the methods the class StudyRecord defines
StudyRecordMethods == {"to_dict"}

\* StudyAnalysisResult.to_dict
StudyAnalysisResult_to_dict(result) ==
    [study |-> StudyRecord_to_dict(result.study), success |-> result.success,
     summary |-> result.summary, metrics |-> result.metrics, error |-> result.error]

\* StudyAnalysisResult.from_dict: its first argument is the value of
\* StudyRecord.from_dict(payload["study"]), an attribute StudyRecord lacks
StudyAnalysisResult_from_dict(payload) ==
    IF "from_dict" \notin StudyRecordMethods
    THEN [kind |-> "raised", error |-> "AttributeError"]
    ELSE [kind |-> "returned",
          result |-> [study |-> payload.study, success |-> payload.success,
                      summary |-> payload.summary, metrics |-> payload.metrics,
                      error |-> payload.error]]

\* BatchAnalysis.to_dict
BatchAnalysis_to_dict(batch) ==
    [phantom |-> batch.phantom,
     generated_at |-> isoformat(batch.generated_at),
     success_count |-> success_count(batch),
     failure_count |-> failure_count(batch),
     results |-> [i \in 1..Len(batch.results) |->
                     StudyAnalysisResult_to_dict(batch.results[i])]]

\* BatchAnalysis.from_dict: the batch, or the exception the first result raises
BatchAnalysis_from_dict(payload) ==
    LET restored == [i \in 1..Len(payload.results) |->
                        StudyAnalysisResult_from_dict(payload.results[i])]
    IN  IF \E i \in 1..Len(restored) : restored[i].kind = "raised"
        THEN [kind |-> "raised",
              error |-> restored[CHOOSE i \in 1..Len(restored) :
                                    /\ restored[i].kind = "raised"
                                    /\ \A j \in 1..(i - 1) : restored[j].kind # "raised"].error]
        ELSE [kind |-> "returned",
              batch |-> BatchAnalysis(payload.phantom,
                                      fromisoformat(payload.generated_at),
                                      [i \in 1..Len(restored) |-> restored[i].result])]

\* the batches whose round trip is taken
RoundTripBatches ==
    {BatchAnalysis(ph, dt, rs) :
        ph \in PhantomNames, dt \in Datetimes, rs \in SeqsUpTo(Results, MaxBatch)}

RoundTripIdle ==
    [pc |-> "idle", batch |-> EmptyBatch, payload |-> BatchAnalysis_to_dict(EmptyBatch),
     restored |-> [kind |-> "none"]]

\* b.to_dict()
RoundTripToDict(batch) ==
    /\ rt.pc = "idle"
    /\ rt' = [rt EXCEPT !.pc = "serialized", !.batch = batch,
                        !.payload = BatchAnalysis_to_dict(batch)]
    /\ UNCHANGED <<env, file, parentDir, reports, clock, ex, rn, iv, sm, mt, fn>>

\* BatchAnalysis.from_dict(payload)
RoundTripFromDict ==
    /\ rt.pc = "serialized"
    /\ rt' = [rt EXCEPT !.pc = "restored",
                        !.restored = BatchAnalysis_from_dict(rt.payload)]
    /\ UNCHANGED <<env, file, parentDir, reports, clock, ex, rn, iv, sm, mt, fn>>

InitRoundTrip ==
    /\ env = [installed |-> TRUE]
    /\ file = AbsentFile
    /\ parentDir = FALSE
    /\ reports = NoReports
    /\ clock = 0
    /\ ex = [p \in Procs |-> IdleCall]
    /\ rn = RunIdle
    /\ rt = RoundTripIdle
    /\ iv = ScanIdle
    /\ sm = SummaryIdle
    /\ mt = MetricsIdle
    /\ fn = FilenameIdle

NextRoundTrip ==
    \/ \E batch \in RoundTripBatches : RoundTripToDict(batch)
    \/ RoundTripFromDict

SpecRoundTrip == InitRoundTrip /\ [][NextRoundTrip]_vars

InitRun ==
    /\ env \in Environments
    /\ file = AbsentFile
    /\ parentDir = FALSE
    /\ reports = NoReports
    /\ clock \in {0, 1}
    /\ ex = [p \in Procs |-> IdleCall]
    /\ rn = RunIdle
    /\ rt = RoundTripIdle
    /\ iv = ScanIdle
    /\ sm = SummaryIdle
    /\ mt = MetricsIdle
    /\ fn = FilenameIdle

NextRun ==
    \/ \E inventory \in Inventories, phantom_name \in PhantomNames :
          RunCall(inventory, phantom_name)
    \/ RunLoad
    \/ \E outcome \in AnalyzerOutcomes, message \in Messages \cup {None} :
          RunStudy(outcome, message)
    \/ RunReturn

SpecRun == InitRun /\ [][NextRun]_vars

\* the sequential exporter: one process, call after call, on a destination
\* that does not exist at first
InitExport ==
    /\ env \in Environments
    /\ file = AbsentFile
    /\ parentDir = FALSE
    /\ reports = NoReports
    /\ clock = 0
    /\ ex = [p \in Procs |-> IdleCall]
    /\ rn = RunIdle
    /\ rt = RoundTripIdle
    /\ iv = ScanIdle
    /\ sm = SummaryIdle
    /\ mt = MetricsIdle
    /\ fn = FilenameIdle

NextExport == ExportStep(1)

SpecExport == InitExport /\ [][NextExport]_vars

(***************************************************************************)
(* The sequential exporter in an environment that loses pylinac between    *)
(* two calls, with batches that name an analyzer pylinac.ct does not       *)
(* offer.                                                                  *)
(***************************************************************************)
\* the batches: successes only, under an analyzer that is offered and one
\* that is not
ResolveBatches ==
    {BatchAnalysis(ph, Epoch, rs) :
        ph \in {CatPhan503, CatPhan999},
        rs \in SeqsUpTo({r \in ExportResults : r.success}, MaxBatch)}

\* between two calls pylinac stops being importable
Uninstall ==
    /\ ex[1].pc \in {"idle", "done"}
    /\ env.installed
    /\ env' = [env EXCEPT !.installed = FALSE]
    /\ UNCHANGED <<file, parentDir, reports, clock, ex, rn, rt, iv, sm, mt, fn>>

InitResolve ==
    /\ env = [installed |-> TRUE]
    /\ file = AbsentFile
    /\ parentDir = FALSE
    /\ reports = NoReports
    /\ clock = 0
    /\ ex = [p \in Procs |-> IdleCall]
    /\ rn = RunIdle
    /\ rt = RoundTripIdle
    /\ iv = ScanIdle
    /\ sm = SummaryIdle
    /\ mt = MetricsIdle
    /\ fn = FilenameIdle

NextResolve ==
    \/ \E batch \in ResolveBatches : ExportCall(1, batch)
    \/ ExportResolve(1)
    \/ ExportLoad(1)
    \/ ExportSkip(1)
    \/ \E outcome \in ReportOutcomes : ExportAppend(1, outcome)
    \/ ExportWriteOpen(1)
    \/ \E completes \in BOOLEAN : ExportWriteFlush(1, completes)
    \/ Uninstall

SpecResolve == InitResolve /\ [][NextResolve]_vars

(***************************************************************************)
(* The analysis of an inventory followed by the export of the batch it     *)
(* returned: the two call sites of _create_catphan_instance.               *)
(***************************************************************************)
\* the inventories of the pipeline: two studies, in either order
PipelineInventories ==
    {inv \in Inventories :
        /\ Len(inv) <= MaxBatch
        /\ \A i \in 1..Len(inv) : inv[i].relative_path \in {<<"a", "&", "b">>, <<"d">>}}

\* export_pass_results_to_xml(batch, destination) on the batch that
\* run_catphan_analysis returned
PipelineExport ==
    /\ rn.pc = "done"
    /\ rn.ret.kind = "returned"
    /\ ExportCall(1, rn.ret.batch)

InitPipeline ==
    /\ env \in Environments
    /\ file = AbsentFile
    /\ parentDir = FALSE
    /\ reports = NoReports
    /\ clock = 0
    /\ ex = [p \in Procs |-> IdleCall]
    /\ rn = RunIdle
    /\ rt = RoundTripIdle
    /\ iv = ScanIdle
    /\ sm = SummaryIdle
    /\ mt = MetricsIdle
    /\ fn = FilenameIdle

NextPipeline ==
    \/ \E inventory \in PipelineInventories, phantom_name \in KnownPhantoms :
          RunCall(inventory, phantom_name)
    \/ RunLoad
    \/ \E outcome \in AnalyzerOutcomes, message \in Messages \cup {None} :
          RunStudy(outcome, message)
    \/ RunReturn
    \/ PipelineExport
    \/ ExportResolve(1)
    \/ ExportLoad(1)
    \/ ExportSkip(1)
    \/ \E outcome \in ReportOutcomes : ExportAppend(1, outcome)
    \/ ExportWriteOpen(1)
    \/ \E completes \in BOOLEAN : ExportWriteFlush(1, completes)

SpecPipeline == InitPipeline /\ [][NextPipeline]_vars

\* _report_filename on any study id and analyzer name
InitFilename ==
    /\ env = [installed |-> TRUE]
    /\ file = AbsentFile
    /\ parentDir = FALSE
    /\ reports = NoReports
    /\ clock = 0
    /\ ex = [p \in Procs |-> IdleCall]
    /\ rn = RunIdle
    /\ rt = RoundTripIdle
    /\ iv = ScanIdle
    /\ sm = SummaryIdle
    /\ mt = MetricsIdle
    /\ \E study_id \in Names, phantom \in Names :
          fn = [FilenameIdle EXCEPT !.study_id = study_id, !.phantom = phantom]

NextFilename == FilenameCall

SpecFilename == InitFilename /\ [][NextFilename]_vars

\* the flattener and the loop body on any of the metrics trees
InitMetrics ==
    /\ env = [installed |-> TRUE]
    /\ file = AbsentFile
    /\ parentDir = FALSE
    /\ reports = NoReports
    /\ clock = 0
    /\ ex = [p \in Procs |-> IdleCall]
    /\ rn = RunIdle
    /\ rt = RoundTripIdle
    /\ iv = ScanIdle
    /\ sm = SummaryIdle
    /\ \E payload \in MetricsTrees : mt = [MetricsIdle EXCEPT !.payload = payload]
    /\ fn = FilenameIdle

NextMetrics ==
    \/ MetricsFlatten
    \/ MetricsRecord

SpecMetrics == InitMetrics /\ [][NextMetrics]_vars

\* the summary parser on any of the summary texts
InitSummary ==
    /\ env = [installed |-> TRUE]
    /\ file = AbsentFile
    /\ parentDir = FALSE
    /\ reports = NoReports
    /\ clock = 0
    /\ ex = [p \in Procs |-> IdleCall]
    /\ rn = RunIdle
    /\ rt = RoundTripIdle
    /\ iv = ScanIdle
    /\ \E summary \in SummaryTexts : sm = [SummaryIdle EXCEPT !.summary = summary]
    /\ mt = MetricsIdle
    /\ fn = FilenameIdle

NextSummary ==
    \/ SummaryNormalise
    \/ SummaryEmit

SpecSummary == InitSummary /\ [][NextSummary]_vars

\* build_inventory on a scan root that holds any of the trees
InitScan ==
    /\ env = [installed |-> TRUE]
    /\ file = AbsentFile
    /\ parentDir = FALSE
    /\ reports = NoReports
    /\ clock = 0
    /\ ex = [p \in Procs |-> IdleCall]
    /\ rn = RunIdle
    /\ rt = RoundTripIdle
    /\ \E fs \in FileSystems :
          iv = [ScanIdle EXCEPT !.root_kind = fs.root_kind, !.tree = fs.tree]
    /\ sm = SummaryIdle
    /\ mt = MetricsIdle
    /\ fn = FilenameIdle

NextScan ==
    \/ \E extensions \in ExtensionArgs : ScanCall(extensions)
    \/ ScanDir
    \/ ScanReturn

SpecScan == InitScan /\ [][NextScan]_vars

(***************************************************************************)
(* Two processes that each call export_pass_results_to_xml once, on the    *)
(* same destination.                                                       *)
(***************************************************************************)
\* the batches of the concurrent calls: successes under one analyzer
ConcurrentBatches ==
    {b \in ExportBatches :
        b.phantom = CatPhan503 /\ \A i \in 1..Len(b.results) : b.results[i].success}

ConcurrentCall(p, batch) ==
    /\ ex[p].calls = 0
    /\ ExportCall(p, batch)

InitConcurrent ==
    /\ env = [installed |-> TRUE]
    /\ file = AbsentFile
    /\ parentDir = FALSE
    /\ reports = NoReports
    /\ clock = 0
    /\ ex = [p \in Procs |-> IdleCall]
    /\ rn = RunIdle
    /\ rt = RoundTripIdle
    /\ iv = ScanIdle
    /\ sm = SummaryIdle
    /\ mt = MetricsIdle
    /\ fn = FilenameIdle

NextConcurrent ==
    \E p \in Procs :
        \/ \E batch \in ConcurrentBatches : ConcurrentCall(p, batch)
        \/ ExportResolve(p)
        \/ ExportLoad(p)
        \/ ExportSkip(p)
        \/ \E outcome \in ReportOutcomes : ExportAppend(p, outcome)
        \/ ExportWriteOpen(p)
        \/ \E completes \in BOOLEAN : ExportWriteFlush(p, completes)

SpecConcurrent == InitConcurrent /\ [][NextConcurrent]_vars

(***************************************************************************)
(* Properties of the sequential exporter, checked under SpecExport.        *)
(***************************************************************************)
\* the results have pairwise distinct relative paths
DistinctPaths(results) ==
    \A i, j \in 1..Len(results) :
        i # j => results[i].study.relative_path # results[j].study.relative_path

\* the analyzer type of the call's batch can be resolved
Resolvable(c) == LoadError(env.installed, c.batch.phantom) = "none"

\* the call did not fail writing the destination
NoIOFault(c) == ~(c.ret.kind = "raised" /\ c.ret.error = "OSError")

\* the number of Study elements of a document with this identity pair
CountKey(studies, key) ==
    Cardinality({i \in 1..Len(studies) : KeyOf(studies[i]) = key})

\* C1: export is idempotent.  A batch with n >= 1 successes of distinct
\* relative paths, exported to a destination that does not exist, returns
\* (n, 0); exported once more right after, it returns (0, n), and the
\* document holds as many Study elements after the second call as after
\* the first.
C1_ExportIdempotent ==
    LET c == ex[1]
        n == Len(c.successes)
    IN  (c.pc = "done" /\ n >= 1 /\ DistinctPaths(c.successes)) =>
            /\ (~c.fileBefore.exists /\ Resolvable(c) /\ NoIOFault(c)) =>
                   /\ c.ret = Returned(n, 0)
                   /\ Len(StudiesOf(file)) = n
            /\ c.again =>
                   /\ c.ret = Returned(0, n)
                   /\ Len(StudiesOf(c.fileBefore)) = n
                   /\ Len(StudiesOf(file)) = Len(StudiesOf(c.fileBefore))

\* a batch of two successes has been exported twice in a row
C1_Witness ==
    /\ ex[1].pc = "done" /\ ex[1].again
    /\ Len(ex[1].successes) = 2 /\ DistinctPaths(ex[1].successes)
    /\ ex[1].ret = Returned(0, 2)
    /\ Len(StudiesOf(file)) = 2

\* C2: a batch with no successful result returns (0, 0) and touches
\* nothing: the destination is not created, read or modified, no directory
\* is created, and the analyzer is neither resolved nor invoked.
C2_NoSuccessNoEffect ==
    LET c == ex[1]
    IN  (c.pc \notin {"idle"} /\ c.successes = <<>>) =>
            /\ c.pc = "done"
            /\ c.ret = Returned(0, 0)
            /\ file = c.fileBefore
            /\ parentDir = c.parentBefore
            /\ reports = c.reportsBefore
            /\ c.reads = 0
            /\ ~c.resolved
            /\ c.invoked = 0

\* a batch that holds only a failed result was exported to a destination
\* that does not exist
C2_Witness ==
    /\ ex[1].pc = "done"
    /\ Len(ex[1].batch.results) >= 1 /\ ex[1].successes = <<>>
    /\ ex[1].ret = Returned(0, 0)
    /\ ~file.exists /\ ~parentDir

\* C3: the deduplication key is the pair (study id, analyzer name).  A
\* success of study S exported under analyzer B to a document that holds S
\* under another analyzer only returns (1, 0), and the document then
\* holds one more Study element for S, one of them under B.
C3_DedupKeyIsPair ==
    LET c == ex[1]
        before == StudiesOf(c.fileBefore)
        after == StudiesOf(file)
        WithId(studies, id) == {i \in 1..Len(studies) : studies[i].id = id}
    IN  (/\ c.pc = "done" /\ Len(c.successes) = 1
         /\ Resolvable(c) /\ NoIOFault(c) /\ c.fileBefore.exists /\ Parseable(c.fileBefore)
         /\ WithId(before, c.successes[1].study.relative_path) # {}
         /\ CountKey(before, ResultKey(c.successes[1], c.batch.phantom)) = 0) =>
            LET id == c.successes[1].study.relative_path
            IN  /\ c.ret = Returned(1, 0)
                /\ Cardinality(WithId(after, id)) = Cardinality(WithId(before, id)) + 1
                /\ CountKey(after, <<id, c.batch.phantom>>) = 1
                /\ \A i \in WithId(before, id) : CountKey(after, KeyOf(before[i])) = 1

\* a study exported under CatPhan503 has been exported under CatPhan504
C3_Witness ==
    /\ ex[1].pc = "done" /\ Len(ex[1].successes) = 1
    /\ ex[1].batch.phantom = CatPhan504
    /\ ex[1].ret = Returned(1, 0)
    /\ CountKey(StudiesOf(ex[1].fileBefore),
                <<ex[1].successes[1].study.relative_path, CatPhan503>>) = 1
    /\ CountKey(StudiesOf(file),
                <<ex[1].successes[1].study.relative_path, CatPhan503>>) = 1
    /\ CountKey(StudiesOf(file),
                <<ex[1].successes[1].study.relative_path, CatPhan504>>) = 1

\* C4: the document is append-only.  The Study elements the destination
\* held before a call that returned are, attributes and children
\* unchanged, a prefix of those it holds after the call.
C4_AppendOnly ==
    LET c == ex[1]
    IN  (c.pc = "done" /\ c.ret.kind = "returned") =>
            /\ IsPrefix(StudiesOf(c.fileBefore), StudiesOf(file))
            /\ c.fileBefore.exists => IsPrefix(c.fileBefore.studies, file.studies)

\* a call appended a Study element to a document that held one
C4_Witness ==
    /\ ex[1].pc = "done" /\ ex[1].ret.kind = "returned" /\ ex[1].ret.exported >= 1
    /\ Len(StudiesOf(ex[1].fileBefore)) >= 1
    /\ Len(StudiesOf(file)) > Len(StudiesOf(ex[1].fileBefore))

\* the Study elements this call appended that carry no Report child
AppendedWithoutReport(c) ==
    {i \in 1..Len(c.root) : KeyOf(c.root[i]) \in c.added /\ c.root[i].Report = None}

\* C5: report rendering is best-effort.  When the report step of a new
\* Study raises, the call does not fail for it: the Study element is
\* appended without a Report child and counted as exported, and the
\* results after it are processed.
C5_ReportBestEffort ==
    LET c == ex[1]
    IN  c.report_failures > 0 =>
            /\ NoIOFault(c) => c.ret.kind # "raised"
            /\ c.exported = Cardinality(c.added)
            /\ Cardinality(AppendedWithoutReport(c)) = c.report_failures
            /\ c.exported + c.skipped = c.idx - 1
            /\ c.pc = "done" /\ NoIOFault(c) =>
                   /\ c.ret = Returned(c.exported, c.skipped)
                   /\ c.exported + c.skipped = Len(c.successes)
                   /\ \A key \in c.added : CountKey(StudiesOf(file), key) = 1

\* the report step of the first of two new studies raised, the second
\* study's report was rendered, and the call returned (2, 0)
C5_Witness ==
    /\ ex[1].pc = "done" /\ ex[1].ret = Returned(2, 0)
    /\ ex[1].report_failures = 1
    /\ Len(StudiesOf(file)) = 2
    /\ StudiesOf(file)[1].Report = None
    /\ StudiesOf(file)[2].Report # None

\* C6: the destination is rewritten atomically.  At every point of a call
\* the destination holds the complete document it held before the call
\* (or is absent, as before), or the complete new document.
C6_AtomicRewrite ==
    LET c == ex[1]
    IN  c.pc # "idle" => (file = c.fileBefore \/ file = WrittenFile(c.root))

(***************************************************************************)
(* Properties of concurrent exports, checked under SpecConcurrent.         *)
(***************************************************************************)
\* C7: concurrent exports to one destination are serialized.  When both
\* calls have returned, the document holds exactly one Study element for
\* every identity pair that either call counted as exported.
C7_ConcurrentExportsSerialized ==
    (\A p \in Procs : ex[p].pc = "done" /\ ex[p].ret.kind = "returned") =>
        \A key \in ex[1].added \cup ex[2].added : CountKey(StudiesOf(file), key) = 1

(***************************************************************************)
(* Properties of run_catphan_analysis, checked under SpecRun.              *)
(***************************************************************************)
\* text contains part
Contains(text, part) ==
    \E i \in 0..(Len(text) - Len(part)) : SubSeq(text, i + 1, i + Len(part)) = part

\* the positions of the studies for which the analyzer raised
Failing(log) == {i \in 1..Len(log) : log[i].outcome # "ok"}

\* C8: per-study failures are isolated.  Whatever studies the analyzer
\* raises for, in construction, analyze(), results() or results_data(), the
\* call returns a batch with failure_count the number of those studies and
\* success_count the number of the others; the studies after a failing one
\* are analyzed, and a failing study's result has success = false and an
\* error that contains the exception's message.
C8_FailuresIsolated ==
    (rn.pc \in {"loop", "done"} /\ LoadError(env.installed, rn.phantom_name) = "none") =>
        /\ Len(rn.log) = rn.idx - 1
        /\ Len(rn.results) = Len(rn.log)
        /\ \A i \in 1..Len(rn.log) :
              /\ rn.log[i].study = rn.inventory[i]
              /\ rn.results[i].study = rn.inventory[i]
              /\ rn.results[i].success = (rn.log[i].outcome = "ok")
              /\ rn.log[i].outcome # "ok" =>
                    /\ rn.results[i].error # None
                    /\ Contains(rn.results[i].error, rn.log[i].message)
        /\ rn.pc = "done" =>
              /\ rn.ret.kind = "returned"
              /\ Len(rn.log) = Len(rn.inventory)
              /\ failure_count(rn.ret.batch) = Cardinality(Failing(rn.log))
              /\ success_count(rn.ret.batch) =
                    Len(rn.inventory) - Cardinality(Failing(rn.log))

\* of three studies the analyzer's construction raised for the second, and
\* the call returned two successes and one failure
C8_Witness ==
    /\ rn.pc = "done" /\ rn.ret.kind = "returned"
    /\ Len(rn.inventory) = 3
    /\ Failing(rn.log) = {2} /\ rn.log[2].outcome = "construct_raises"
    /\ success_count(rn.ret.batch) = 2 /\ failure_count(rn.ret.batch) = 1
    /\ rn.ret.batch.results[2].error = <<"b", "o", "o", "m">>
    /\ rn.ret.batch.results[3].success

\* C9: analyzer resolution is a fatal precondition.  When pylinac is
\* missing the call raises PylinacNotInstalledError, and when the analyzer
\* name is unknown PhantomNotAvailableError, before any study is
\* constructed or analyzed, for every inventory, the empty one included,
\* and no BatchAnalysis is returned.
C9_ResolutionIsFatal ==
    (rn.pc \notin {"idle", "load"}
     /\ (~env.installed \/ rn.phantom_name \notin KnownPhantoms)) =>
        /\ rn.pc = "done"
        /\ rn.ret.kind = "raised"
        /\ rn.ret.error = IF ~env.installed THEN "PylinacNotInstalledError"
                          ELSE "PhantomNotAvailableError"
        /\ rn.log = <<>>
        /\ rn.results = <<>>

\* the call with an empty inventory and an unknown analyzer name raised
C9_Witness ==
    /\ rn.pc = "done" /\ rn.inventory = <<>>
    /\ env.installed /\ rn.phantom_name = CatPhan999
    /\ rn.ret = [kind |-> "raised", error |-> "PhantomNotAvailableError"]

(***************************************************************************)
(* Properties of the serialized form, checked under SpecRoundTrip.         *)
(***************************************************************************)
\* C10: a BatchAnalysis round-trips through its serialized form: from_dict
\* of to_dict succeeds and yields the same analyzer name, timestamp, counts
\* and results.
C10_RoundTripLossless ==
    rt.pc = "restored" =>
        /\ rt.restored.kind = "returned"
        /\ rt.restored.batch.phantom = rt.batch.phantom
        /\ rt.restored.batch.generated_at = rt.batch.generated_at
        /\ success_count(rt.restored.batch) = success_count(rt.batch)
        /\ failure_count(rt.restored.batch) = failure_count(rt.batch)
        /\ rt.restored.batch.results = rt.batch.results

(***************************************************************************)
(* Properties of build_inventory, checked under SpecScan.                  *)
(***************************************************************************)
\* the suffix of name is, letter case aside, one of the configured extensions
Recognized(name) == \E ext \in iv.extensions : lower(ext) = lower(suffix(name))

\* dir holds at least one file with a recognized extension
HoldsImages(dir) == \E name \in iv.tree[dir] : Recognized(name)

\* the positions of the records of the inventory made for dir
RecordsOf(dir) ==
    {i \in 1..Len(iv.studies) : iv.studies[i].relative_path = RelativePath(dir)}

\* dir holds images and no directory above it does
Topmost(dir) == HoldsImages(dir) /\ \A a \in Ancestors(dir) : ~HoldsImages(a)

\* C11: build_inventory returns exactly the topmost matching directories.
\* A directory has a StudyRecord if and only if it holds a file with a
\* recognized extension and no directory above it, up to the root, does;
\* so no record's directory lies below another record's directory, the
\* subdirectories of a searched directory without matching files are
\* searched, and relative_path is unique within the inventory.
C11_TopmostMatchingDirectories ==
    (iv.pc = "done" /\ iv.ret.kind = "returned") =>
        LET studies == iv.ret.inventory.studies
        IN  /\ studies = iv.studies
            /\ \A dir \in Dirs : (RecordsOf(dir) # {}) <=> Topmost(dir)
            /\ \A i \in 1..Len(studies) :
                  \E dir \in Dirs : studies[i].relative_path = RelativePath(dir)
            /\ \A d1, d2 \in Dirs :
                  (RecordsOf(d1) # {} /\ RecordsOf(d2) # {}) => d1 \notin Ancestors(d2)
            /\ \A dir \in Dirs :
                  (~HoldsImages(dir) /\ \A a \in Ancestors(dir) : ~HoldsImages(a)) =>
                      \A c \in Children(dir) :
                          \E k \in 1..Len(iv.visited) : iv.visited[k] = c
            /\ \A i, j \in 1..Len(studies) :
                  i # j => studies[i].relative_path # studies[j].relative_path

\* the root holds no image, a and d hold one each and so does a/b below a:
\* the inventory has a record for a and for d and none for a/b
C11_Witness ==
    /\ iv.pc = "done" /\ iv.ret.kind = "returned"
    /\ ~HoldsImages(ScanRoot)
    /\ HoldsImages(<<"a">>) /\ HoldsImages(<<"a", "b">>) /\ HoldsImages(<<"d">>)
    /\ Len(iv.ret.inventory.studies) = 2
    /\ RecordsOf(<<"a">>) # {} /\ RecordsOf(<<"d">>) # {}
    /\ RecordsOf(<<"a", "b">>) = {}

\* the files directly in dir with a recognized extension
ImagesIn(dir) == {name \in iv.tree[dir] : Recognized(name)}

\* C12: every StudyRecord of the inventory has file_count >= 1, the
\* number of files directly in its directory whose suffix is, compared
\* case-insensitively, in the configured extension set, and its extensions
\* are exactly the lower-cased suffixes of those files.
C12_FileCountAndExtensions ==
    (iv.pc = "done" /\ iv.ret.kind = "returned") =>
        \A dir \in Dirs : \A i \in RecordsOf(dir) :
            LET record == iv.ret.inventory.studies[i]
            IN  /\ record.file_count >= 1
                /\ record.file_count = Cardinality(ImagesIn(dir))
                /\ record.extensions = {lower(suffix(name)) : name \in ImagesIn(dir)}
                /\ record.path = AbsolutePath(dir)

\* with the extension set given as {.IMA}, a directory that holds I.IMA and
\* s.dcm has a record that counts one file, of extension .ima
C12_Witness ==
    /\ iv.pc = "done" /\ iv.ret.kind = "returned"
    /\ iv.extensions = {<<".", "I", "M", "A">>}
    /\ iv.tree[<<"d">>] = {<<"I", ".", "I", "M", "A">>, <<"s", ".", "d", "c", "m">>}
    /\ \E i \in RecordsOf(<<"d">>) :
          /\ iv.studies[i].file_count = 1
          /\ iv.studies[i].extensions = {DotIma}

(***************************************************************************)
(* Properties of the summary parser, checked under SpecSummary.            *)
(***************************************************************************)
\* the lines of the summary between line breaks ("\n", "\r\n" or "\r"),
\* trimmed, the blank ones dropped
NonBlankLines == raw_lines(sm.summary)

\* line i ends with a continuation marker
Continues(i) == NonBlankLines[i][Len(NonBlankLines[i])] \in {":", ","}

\* the lines that end an entry: those without a continuation marker, and
\* the last line
Closers ==
    {i \in 1..Len(NonBlankLines) : ~Continues(i) \/ i = Len(NonBlankLines)}

\* lines from..to, joined by single spaces
RECURSIVE JoinLines(_, _)
JoinLines(from, to) ==
    IF from = to THEN NonBlankLines[from]
    ELSE NonBlankLines[from] \o <<" ">> \o JoinLines(from + 1, to)

\* the first line of the entry that line c ends
FirstOf(c) ==
    LET before == {d \in Closers : d < c}
    IN  IF before = {} THEN 1 ELSE Largest(before) + 1

\* C13: line-wrap merging.  Consecutive non-blank trimmed lines are merged
\* into one entry, joined by single spaces, exactly while the current line
\* ends with ":" or ","; every line belongs to exactly one entry, in
\* order, and a trailing run that ends with a marker is one entry too.
\* The summary "Median:\n12.3" yields the single Item of name "Median"
\* and value "12.3".
C13_LineWrapMerging ==
    /\ sm.pc \in {"normalised", "emitted"} =>
          /\ Len(sm.merged) = Cardinality(Closers)
          /\ \A c \in Closers :
                sm.merged[Cardinality({d \in Closers : d <= c})] = JoinLines(FirstOf(c), c)
    /\ (sm.pc = "emitted" /\ sm.summary = Median \o <<":", "\n", "1", "2", ".", "3">>) =>
          sm.entries = <<Item(Median, <<"1", "2", ".", "3">>)>>

\* "Median:\n12.3" has been parsed into one entry
C13_Witness ==
    /\ sm.pc = "emitted"
    /\ sm.summary = Median \o <<":", "\n", "1", "2", ".", "3">>
    /\ sm.merged = <<Median \o <<":", " ", "1", "2", ".", "3">>>>
    /\ Len(sm.entries) = 1

\* the text of a dashed banner between its dashes, trimmed
InnerText(entry) == strip(strip_chars(entry, {"-"}))

\* entry is a dashed banner: dashes around a non-empty inner text
IsBanner(entry) ==
    startswith(entry, "-") /\ endswith(entry, "-") /\ InnerText(entry) # <<>>

\* the positions of the merged entries that are no dashed banner and
\* contain ":"
ColonEntries ==
    {i \in 1..Len(sm.merged) :
        Positions(sm.merged[i], ":") # {} /\ ~IsBanner(sm.merged[i])}

\* C14: every merged entry that is no dashed banner and contains ":" is
\* emitted as an Item, its name the trimmed text left of the first ":" and
\* its value the trimmed text right of it (absent when empty), and never as
\* a Note, whatever stands left of the colon.
C14_ColonEntryIsItem ==
    sm.pc = "emitted" =>
        \A i \in ColonEntries :
            LET entry == sm.merged[i]
                colon == Smallest(Positions(entry, ":"))
                left == strip(SubSeq(entry, 1, colon - 1))
                right == strip(SubSeq(entry, colon + 1, Len(entry)))
            IN  /\ sm.entries[i].tag = "Item"
                /\ sm.entries[i].name = left
                /\ sm.entries[i].text = IF right = <<>> THEN None ELSE right

\* the last space-delimited token of an entry, and the text before it
LastToken(entry) ==
    IF Positions(entry, " ") = {} THEN entry
    ELSE SubSeq(entry, Largest(Positions(entry, " ")) + 1, Len(entry))

Remainder(entry) ==
    IF Positions(entry, " ") = {} THEN <<>>
    ELSE strip(SubSeq(entry, 1, Largest(Positions(entry, " ")) - 1))

\* token is true/false/yes/no/pass/fail in any letter case, or parses as a
\* number once its commas are removed
IsValueToken(token) ==
    lower(token) \in BooleanWords \/ ParsesAsFloat(remove(token, ","))

RECURSIVE Leaves(_, _)
RECURSIVE LeavesFrom(_, _, _)
LeavesFrom(node, steps, i) ==
    IF i > Len(node.val) THEN <<>>
    ELSE (IF node.kind = "map"
          THEN Leaves(node.val[i][2], Append(steps, <<"key", node.val[i][1]>>))
          ELSE Leaves(node.val[i], Append(steps, <<"index", IntStr(i - 1)>>)))
         \o LeavesFrom(node, steps, i + 1)

Leaves(node, steps) ==
    IF node.kind \in {"map", "list"} THEN LeavesFrom(node, steps, 1)
    ELSE <<[steps |-> steps, value |-> node]>>

\* the path the claim gives a node: parentPath.key or parentPath[index],
\* and the bare key or [index] for a child of the root
RECURSIVE PathAtRoot(_)
PathAtRoot(steps) ==
    IF steps = <<>> THEN <<>>
    ELSE LET parentPath == PathAtRoot(SubSeq(steps, 1, Len(steps) - 1))
             step == steps[Len(steps)]
         IN  IF step[1] = "key"
             THEN IF Len(steps) = 1 THEN step[2] ELSE parentPath \o <<".">> \o step[2]
             ELSE parentPath \o <<"[">> \o step[2] \o <<"]">>

\* C15 as stated: flatten returns the pairs of the scalar leaves in
\* traversal order; a mapping contributes for every key the entries of
\* path parentPath.key (the bare key at the root), a sequence for every
\* element those of path parentPath[index] ([index] at the root), a scalar
\* leaf exactly one pair (currentPath, value), and the path is empty only
\* when the whole tree is a bare scalar.
C15_FlattenPaths ==
    mt.pc # "input" =>
        LET leaves == Leaves(mt.payload, <<>>)
        IN  /\ mt.flattened =
                  [i \in 1..Len(leaves) |-> <<PathAtRoot(leaves[i].steps), leaves[i].value>>]
            /\ \A i \in 1..Len(mt.flattened) :
                  mt.flattened[i][1] = <<>> => mt.payload.kind \notin {"map", "list"}

\* the path the code gives a node: the bare key or [index] whenever the
\* path of the parent is empty
RECURSIVE PathFromParent(_)
PathFromParent(steps) ==
    IF steps = <<>> THEN <<>>
    ELSE LET parentPath == PathFromParent(SubSeq(steps, 1, Len(steps) - 1))
             step == steps[Len(steps)]
         IN  IF step[1] = "key"
             THEN IF parentPath = <<>> THEN step[2] ELSE parentPath \o <<".">> \o step[2]
             ELSE parentPath \o <<"[">> \o step[2] \o <<"]">>

\* C15, amended: as stated, except that a key or [index] stands bare
\* whenever the path of its parent is empty, which is so at the root and
\* below empty keys, and that the path of a leaf is empty only when the
\* tree is a bare scalar or every step to the leaf is an empty key.
C15_FlattenPathsAmended ==
    mt.pc # "input" =>
        LET leaves == Leaves(mt.payload, <<>>)
        IN  /\ mt.flattened =
                  [i \in 1..Len(leaves) |-> <<PathFromParent(leaves[i].steps), leaves[i].value>>]
            /\ \A i \in 1..Len(mt.flattened) :
                  mt.flattened[i][1] = <<>> =>
                      \A k \in 1..Len(leaves[i].steps) : leaves[i].steps[k] = <<"key", <<>>>>

\* the tree {"a": {"b": [timestamp]}} has been flattened to the one pair
\* of path a.b[0]
C15_Witness ==
    /\ mt.pc = "flattened"
    /\ mt.payload =
          MapNode(<< <<<<"a">>, MapNode(<< <<<<"b">>, DatetimeNode(Timestamp)>> >>)>> >>)
    /\ mt.flattened = << <<<<"a", ".", "b">>, DatetimeNode(Timestamp)>> >>

\* a value json encodes natively
IsJsonNative(node) == node.kind # "datetime"

\* the tree with every value that is not JSON-native replaced, where it
\* stands, by its string representation
RECURSIVE Stringified(_)
Stringified(node) ==
    IF node.kind = "map"
    THEN MapNode([i \in 1..Len(node.val) |-> <<node.val[i][1], Stringified(node.val[i][2])>>])
    ELSE IF node.kind = "list"
    THEN ListNode([i \in 1..Len(node.val) |-> Stringified(node.val[i])])
    ELSE IF IsJsonNative(node) THEN node
    ELSE StrNode(DatetimeStr(node.val))

\* C16: metrics serialization safety.  For a study whose analyzer returns
\* a metrics tree that holds values that are not JSON-native, at any
\* depth, the orchestrator records a successful result whose metrics hold
\* the string representation of each such value in the same position and
\* every JSON-native value unchanged; no exception is raised.
C16_MetricsSerializationSafe ==
    mt.pc = "recorded" =>
        LET result == mt.recorded.result
        IN  /\ result.success
            /\ result.error = None
            /\ result.metrics = Stringified(mt.payload)

\* the analyzer returned {"a": {"b": [timestamp]}} and the result recorded
\* holds the timestamp as a string in the list under a.b
C16_Witness ==
    /\ mt.pc = "recorded"
    /\ mt.payload =
          MapNode(<< <<<<"a">>, ListNode(<<DatetimeNode(Timestamp)>>)>> >>)
    /\ mt.recorded.result.success
    /\ mt.recorded.result.metrics =
          MapNode(<< <<<<"a">>, ListNode(<<StrNode(<<"1", ".", "2">>)>>)>> >>)

(***************************************************************************)
(* Properties of the exporter's effects, checked under SpecExport.         *)
(***************************************************************************)
\* C19: the destination is opened for writing only by a call that exported
\* at least one entry, and a call that returns exported >= 1 wrote it once;
\* a call that returns exported = 0 leaves the destination as it was (not
\* created, not rewritten) and makes no reports directory, parent directory
\* or report; every iteration is either a skip or an append, and only an
\* append constructs an analyzer, so a skipped result invokes nothing
C19_WrittenIffExported ==
    LET c == ex[1]
    IN  /\ c.writes > 0 => c.exported > 0
        /\ c.invoked = c.exported
        /\ c.pc = "loop" => c.skipped + c.invoked = c.idx - 1
        /\ (c.pc = "done" /\ c.ret.kind = "returned") =>
              /\ c.ret.exported > 0 =>
                    c.writes = 1 /\ file = WrittenFile(c.root)
              /\ c.ret.exported = 0 =>
                    /\ c.writes = 0
                    /\ c.invoked = 0
                    /\ file = c.fileBefore
                    /\ parentDir = c.parentBefore
                    /\ reports = c.reportsBefore

\* a second call found both of its successes in the destination: it
\* returned (0, 2), wrote nothing and invoked no analyzer
C19_Witness ==
    /\ ex[1].pc = "done"
    /\ ex[1].ret = Returned(0, 2)
    /\ ex[1].writes = 0 /\ ex[1].invoked = 0
    /\ file.exists /\ file = ex[1].fileBefore
    /\ reports = ex[1].reportsBefore

(***************************************************************************)
(* Properties of the batch run_catphan_analysis returns, checked under     *)
(* SpecRun.                                                                *)
(***************************************************************************)
\* C20: the returned batch holds exactly one result per study of the
\* inventory, in inventory order, so its success and failure counts add up
\* to the number of studies; a success carries the analyzer's summary, the
\* normalized metrics and no error, a failure carries an error string, no
\* summary and empty metrics
C20_OneResultPerStudy ==
    (rn.pc = "done" /\ rn.ret.kind = "returned") =>
        LET batch == rn.ret.batch
            results == batch.results
        IN  /\ Len(results) = Len(rn.inventory)
            /\ success_count(batch) + failure_count(batch) = Len(rn.inventory)
            /\ \A i \in 1..Len(rn.inventory) :
                  LET study == rn.inventory[i]
                      result == results[i]
                  IN  /\ result.study = study
                      /\ result.success <=> rn.log[i].outcome = "ok"
                      /\ result.success =>
                            /\ result.summary = SummaryOf(study)
                            /\ result.metrics = Stringified(MetricsOf(study))
                            /\ result.error = None
                      /\ ~result.success =>
                            /\ result.error # None
                            /\ result.error = rn.log[i].message
                            /\ result.summary = None
                            /\ result.metrics = NoMetrics

\* a batch of three studies was returned: the second study failed, the
\* other two succeeded
C20_Witness ==
    /\ rn.pc = "done" /\ rn.ret.kind = "returned"
    /\ Len(rn.inventory) = 3
    /\ rn.ret.batch.results[1].success
    /\ ~rn.ret.batch.results[2].success
    /\ rn.ret.batch.results[3].success
    /\ success_count(rn.ret.batch) = 2 /\ failure_count(rn.ret.batch) = 1

(***************************************************************************)
(* The construction policy, checked under SpecPipeline.                    *)
(***************************************************************************)
\* the construction made follows the policy for the analyzer type cls and
\* the study directory path: from_dir(path) and no direct construction when
\* the type has a callable from_dir, the direct constructor otherwise
FollowsPolicy(made, cls, path) ==
    /\ made.directory = path
    /\ made.via \in {"from_dir", "__init__"}
    /\ FromDirOf(cls) = "classmethod" => made.via = "from_dir"
    /\ made.via = "__init__" <=> FromDirOf(cls) \in {"attribute", "missing"}

\* C17: every analyzer instance, of each study in run_catphan_analysis and
\* of each new Study in the report step of the exporter, is made by from_dir
\* with the study path whenever the resolved type has a callable from_dir,
\* and by the direct constructor with the study path only when it has none
C17_ConstructionPolicy ==
    /\ rn.pc \in {"loop", "done"} => Len(rn.log) = Len(rn.results)
    /\ \A i \in 1..Len(rn.log) :
          FollowsPolicy(rn.log[i], rn.phantom_name, rn.inventory[i].path)
    /\ Len(ex[1].made) = ex[1].invoked
    /\ \A i \in 1..Len(ex[1].made) :
          \E k \in 1..Len(ex[1].successes) :
              /\ ResultKey(ex[1].successes[k], ex[1].batch.phantom) \in ex[1].added
              /\ FollowsPolicy(ex[1].made[i], ex[1].batch.phantom,
                               ex[1].successes[k].study.path)

\* two studies were analyzed and then exported under an analyzer type with
\* a callable from_dir: four instances, each made by from_dir
C17_Witness ==
    /\ rn.pc = "done" /\ rn.phantom_name = CatPhan503
    /\ Len(rn.log) = 2
    /\ rn.log[1].via = "from_dir" /\ rn.log[2].via = "from_dir"
    /\ ex[1].pc = "done" /\ ex[1].batch = rn.ret.batch
    /\ Len(ex[1].made) = 2
    /\ ex[1].made[1].via = "from_dir" /\ ex[1].made[2].via = "from_dir"
    /\ ex[1].made[1].directory = rn.inventory[1].path

(***************************************************************************)
(* Properties of _report_filename, checked under SpecFilename.             *)
(***************************************************************************)
PdfSuffix == <<".", "p", "d", "f">>

\* C21: for every study id and analyzer name, the empty ones and the ones
\* made of disallowed characters or separators included, the file name is
\* <study>_<analyzer>.pdf with both parts non-empty and every character in
\* [A-Za-z0-9_.-]: it holds no path separator and names no parent
\* directory, so the report lies directly inside the reports directory
C21_FilenameTotalAndSafe ==
    fn.pc = "returned" =>
        LET name == fn.name
            stem == SubSeq(name, 1, Len(name) - Len(PdfSuffix))
        IN  /\ Len(name) >= Len(PdfSuffix) + 3
            /\ SubSeq(name, Len(name) - Len(PdfSuffix) + 1, Len(name)) = PdfSuffix
            /\ \A i \in 1..Len(name) : name[i] \in SafeChars
            /\ \A i \in 1..Len(name) : name[i] \notin {"/", "\\"}
            /\ \E k \in 2..(Len(stem) - 1) : stem[k] = "_"
            /\ stem[1] # "_" /\ stem[Len(stem)] # "_"

\* a study id made of separators and an empty analyzer name: both
\* fallbacks are used
C21_Witness ==
    /\ fn.pc = "returned"
    /\ fn.study_id = <<"/", "\\">>
    /\ fn.phantom = <<>>
    /\ fn.name = <<"s", "t", "u", "d", "y", "_",
                   "c", "a", "t", "p", "h", "a", "n", ".", "p", "d", "f">>

(***************************************************************************)
(* Accounting of the exporter, checked under SpecExport.                   *)
(***************************************************************************)
\* the identity pairs of the successful results of a batch
SuccessKeys(batch) ==
    {ResultKey(batch.results[i], batch.phantom) :
        i \in {j \in 1..Len(batch.results) : batch.results[j].success}}

\* C22: a call that returns normally returns exported + skipped = the number
\* of successful results of the batch and adds exported Study elements; a
\* failed result contributes nothing: every Study added and every analyzer
\* made belongs to a successful result, iterations are counted over the
\* successes only, and a study that the batch holds as failed only has as
\* many Study elements after the call as before
C22_CountsCoverSuccesses ==
    LET c == ex[1]
        paths == {c.batch.results[i].study.path :
                    i \in {j \in 1..Len(c.batch.results) : c.batch.results[j].success}}
    IN  /\ c.added \subseteq SuccessKeys(c.batch)
        /\ \A i \in 1..Len(c.made) : c.made[i].directory \in paths
        /\ c.exported + c.skipped <= success_count(c.batch)
        /\ c.invoked <= success_count(c.batch)
        /\ (c.pc = "done" /\ c.ret.kind = "returned") =>
              /\ c.ret.exported + c.ret.skipped = success_count(c.batch)
              /\ Len(StudiesOf(file)) = Len(StudiesOf(c.fileBefore)) + c.ret.exported
              /\ \A i \in 1..Len(c.batch.results) :
                    LET key == ResultKey(c.batch.results[i], c.batch.phantom)
                    IN  key \notin SuccessKeys(c.batch) =>
                          CountKey(StudiesOf(file), key) =
                              CountKey(StudiesOf(c.fileBefore), key)

\* a batch of a failed and a successful result was exported to a
\* destination that did not exist: one Study, no skip, one analyzer
C22_Witness ==
    /\ ex[1].pc = "done"
    /\ Len(ex[1].batch.results) = 2
    /\ ~ex[1].batch.results[1].success /\ ex[1].batch.results[2].success
    /\ ex[1].ret = Returned(1, 0)
    /\ ~ex[1].fileBefore.exists
    /\ Len(StudiesOf(file)) = 1
    /\ ex[1].invoked = 1

\* C23: from a destination that does not exist, after any sequence of
\* sequential calls, no two Study elements of the document (on disk, and in
\* the tree a call is building) have the same (id, analyzer) pair; of two
\* successful results of one batch with the same relative path the first
\* is exported and the second is counted as skipped
C23_NoDuplicateStudy ==
    LET c == ex[1]
        Unique(studies) ==
            \A i, j \in 1..Len(studies) :
                KeyOf(studies[i]) = KeyOf(studies[j]) => i = j
    IN  /\ Unique(StudiesOf(file))
        /\ Unique(c.root)
        /\ (/\ c.pc = "done" /\ c.ret.kind = "returned"
            /\ Len(c.successes) = 2
            /\ c.successes[1].study.relative_path = c.successes[2].study.relative_path
            /\ CountKey(StudiesOf(c.fileBefore),
                        ResultKey(c.successes[1], c.batch.phantom)) = 0) =>
              c.ret = Returned(1, 1)

\* a batch that holds the same study twice was exported after another
\* batch: the study has one Study element, the second result was skipped
C23_Witness ==
    /\ ex[1].pc = "done" /\ ex[1].calls = 2
    /\ Len(ex[1].successes) = 2
    /\ ex[1].successes[1] = ex[1].successes[2]
    /\ ex[1].ret = Returned(1, 1)
    /\ Len(StudiesOf(file)) = 2
    /\ CountKey(StudiesOf(file), ResultKey(ex[1].successes[1], ex[1].batch.phantom)) = 1

\* C24: two Study elements of the destination with different (id, analyzer)
\* pairs never name the same report, and the report a Study element names
\* is the one rendered for its own pair
C24_ReportPathInjective ==
    LET studies == StudiesOf(file)
    IN  /\ \A i, j \in 1..Len(studies) :
              (/\ KeyOf(studies[i]) # KeyOf(studies[j])
               /\ studies[i].Report # None /\ studies[j].Report # None) =>
                  studies[i].Report # studies[j].Report
        /\ \A i \in 1..Len(studies) :
              \A f \in reports.files :
                  f[1] = studies[i].Report => f[2] = KeyOf(studies[i])

(***************************************************************************)
(* Resolution errors of the exporter, checked under SpecResolve.           *)
(***************************************************************************)
\* C25: a call whose batch has a successful result and whose analyzer type
\* cannot be resolved raises the resolution error with nothing read and
\* nothing written: the destination, its parent directory and the reports
\* directory are as they were and no analyzer is made, also when every
\* successful result is already in the document
C25_ResolutionErrorBeforeIO ==
    LET c == ex[1]
        err == LoadError(c.installedBefore, c.batch.phantom)
    IN  (c.pc \notin {"idle", "resolve"} /\ c.successes # <<>> /\ err # "none") =>
            /\ c.pc = "done"
            /\ c.ret = Raised(err)
            /\ c.reads = 0 /\ c.writes = 0 /\ c.invoked = 0
            /\ file = c.fileBefore
            /\ parentDir = c.parentBefore
            /\ reports = c.reportsBefore

\* a batch whose two successes are both in the document is exported once
\* more after pylinac was lost: the call raises and reads nothing
C25_Witness ==
    /\ ex[1].pc = "done" /\ ex[1].calls = 2
    /\ ex[1].ret = Raised("PylinacNotInstalledError")
    /\ Len(ex[1].successes) = 2
    /\ \A i \in 1..2 :
          CountKey(StudiesOf(file), ResultKey(ex[1].successes[i], ex[1].batch.phantom)) = 1
    /\ ex[1].reads = 0
    /\ file = ex[1].fileBefore /\ reports = ex[1].reportsBefore

====
